---- MODULE Spec2Model ----
(***************************************************************************)
(* Model of the station/record resolution core of korea-opendata-mcp:      *)
(* the record resolver and candidate-code generation of FloodControlAPI,   *)
(* the flood-limit analysis, the time-series trend analyzer, the           *)
(* StationManager directory cache and FloodControlAPI.searchAndGetData.    *)
(*                                                                         *)
(* Strings are sequences of one-character strings, so that trim,           *)
(* whitespace stripping, includes and parseFloat are computed.             *)
(* Numbers are integers in hundredths (1.05 is 105); NaN is a sentinel.    *)
(***************************************************************************)
EXTENDS Integers, Sequences, FiniteSets, TLC

VARIABLES
    op,            \* pure-function harness: the function that was applied ("none" before)
    inp,           \* pure-function harness: its input record
    out,           \* pure-function harness: its result
    stationCache,  \* StationManager.stationCache: insertion-ordered Map kind -> StationInfo[]
    lastFetchTime, \* StationManager.lastFetchTime
    now,           \* Date.now()
    proc,          \* the calls in flight: position, arguments, locals and history of each
    ncalls,        \* number of calls started so far
    hist,          \* history: when the last completed refresh started and ended
    call           \* the searchAndGetData call: position, locals, response

varsPure == <<op, inp, out>>
varsSM == <<stationCache, lastFetchTime, now, proc, ncalls, hist>>
varsSearch == <<call>>
vars == <<op, inp, out, stationCache, lastFetchTime, now, proc, ncalls, hist, call>>

(***************************************************************************)
(* Bounds                                                                  *)
(***************************************************************************)
MaxSnap == 2        \* records per snapshot
MaxCodes == 2       \* candidate codes per resolve call
MaxExplicit == 2    \* explicit codes passed to collectCandidateCodes
MaxSeries == 3      \* entries per time series
MaxTime == 4        \* the clock stops here
MaxCalls == 2       \* calls started in one behaviour

(***************************************************************************)
(* Strings and numbers                                                     *)
(***************************************************************************)
NaN == -1000000
Null == <<"null">>              \* null / undefined / missing property
Scale == 100

IsFinite(x) == x # NaN

Digits == {"0", "1", "2", "3", "4", "5", "6", "7", "8", "9"}

DigitVal(c) ==
    CASE c = "0" -> 0 [] c = "1" -> 1 [] c = "2" -> 2 [] c = "3" -> 3
      [] c = "4" -> 4 [] c = "5" -> 5 [] c = "6" -> 6 [] c = "7" -> 7
      [] c = "8" -> 8 [] c = "9" -> 9

IsSpace(c) == c = " "

RECURSIVE TrimLeft(_)
TrimLeft(s) ==
    IF s = <<>> THEN <<>>
    ELSE IF IsSpace(Head(s)) THEN TrimLeft(Tail(s)) ELSE s

RECURSIVE TrimRight(_)
TrimRight(s) ==
    IF s = <<>> THEN <<>>
    ELSE IF IsSpace(s[Len(s)]) THEN TrimRight(SubSeq(s, 1, Len(s) - 1)) ELSE s

\* String.prototype.trim
Trim(s) == TrimRight(TrimLeft(s))

\* stationName.replace(/\s+/g, '')
StripWs(s) == SelectSeq(s, LAMBDA c : ~IsSpace(c))

\* /^\d+$/.test(s)
IsNumeric(s) == s # <<>> /\ \A i \in 1..Len(s) : s[i] \in Digits

\* String.prototype.includes: t occurs in s as a contiguous run
Includes(s, t) ==
    \E i \in 1..(Len(s) + 1) :
        /\ i + Len(t) - 1 <= Len(s)
        /\ SubSeq(s, i, i + Len(t) - 1) = t

\* Length of the longest prefix of s made of digits
RECURSIVE DigitRun(_)
DigitRun(s) ==
    IF s = <<>> \/ Head(s) \notin Digits THEN 0 ELSE 1 + DigitRun(Tail(s))

RECURSIVE DigitsValue(_, _)
DigitsValue(s, acc) ==
    IF s = <<>> THEN acc ELSE DigitsValue(Tail(s), 10 * acc + DigitVal(Head(s)))

\* parseFloat: skips leading whitespace, reads an optional sign, digits and
\* an optional fraction, ignores what follows; NaN when no digit is read.
\* The value is kept in hundredths (two fraction digits are read).
ParseFloat(raw) ==
    LET s0 == TrimLeft(raw)
        neg == s0 # <<>> /\ Head(s0) = "-"
        s == IF neg THEN Tail(s0) ELSE s0
        n == DigitRun(s)
        rest == SubSeq(s, n + 1, Len(s))
        hasFrac == rest # <<>> /\ Head(rest) = "."
        f == IF hasFrac THEN DigitRun(Tail(rest)) ELSE 0
        fd == IF hasFrac THEN SubSeq(Tail(rest), 1, f) ELSE <<>>
        d1 == IF Len(fd) >= 1 THEN DigitVal(fd[1]) ELSE 0
        d2 == IF Len(fd) >= 2 THEN DigitVal(fd[2]) ELSE 0
        mag == DigitsValue(SubSeq(s, 1, n), 0) * Scale + 10 * d1 + d2
    IN  IF n = 0 /\ f = 0 THEN NaN
        ELSE IF neg THEN 0 - mag ELSE mag


(***************************************************************************)
(* Static alias table (STATION_CODE_MAPPING), reduced to a few entries     *)
(* that keep its shape: per kind an ordered list of name -> code, the same *)
(* name under several kinds with different codes, and keys that contain    *)
(* one another.  "D" stands for the character of the dam keyword, "R" for  *)
(* the rainfall keyword, "W" for the water-level keyword.                  *)
(***************************************************************************)
Kinds == {"dam", "waterlevel", "rainfall"}

NameAD == <<"a", "D">>
NameADb == <<"a", "D", "b">>
NameB == <<"b">>
Code31 == <<"3", "1">>
Code32 == <<"3", "2">>
Code39 == <<"3", "9">>
Code18 == <<"1", "8">>

STATION_CODE_MAPPING ==
    [dam |-> << <<NameAD, Code31>>, <<NameADb, Code32>> >>,
     waterlevel |-> << <<NameAD, Code39>>, <<NameB, Code18>> >>,
     rainfall |-> << <<NameAD, Code39>> >>]

\* mapping[query]: own-property lookup by exact key
MappingGet(mapping, query) ==
    IF \E i \in 1..Len(mapping) : mapping[i][1] = query
    THEN mapping[CHOOSE i \in 1..Len(mapping) : mapping[i][1] = query][2]
    ELSE Null

findStationCode(query, type) ==
    LET mapping == STATION_CODE_MAPPING[type]
        hits == {i \in 1..Len(mapping) :
                    Includes(mapping[i][1], query) \/ Includes(query, mapping[i][1])}
    IN  IF MappingGet(mapping, query) # Null THEN MappingGet(mapping, query)
        ELSE IF hits # {}
             THEN mapping[CHOOSE i \in hits : \A j \in hits : i <= j][2]
             ELSE Null

\* normalizeCode: (value ?? '').trim()
normalizeCode(value) == IF value = Null THEN <<>> ELSE Trim(value)

\* Set.add on an insertion-ordered Set
SetAdd(seq, x) == IF \E i \in 1..Len(seq) : seq[i] = x THEN seq ELSE Append(seq, x)

RECURSIVE AddExplicit(_, _)
AddExplicit(cands, additional) ==
    IF additional = <<>> THEN cands
    ELSE LET normalized == normalizeCode(Head(additional))
         IN  AddExplicit(IF normalized # <<>> THEN SetAdd(cands, normalized) ELSE cands,
                         Tail(additional))

\* mutant: the alias-table code is added before the explicit codes
collectCandidateCodes_AliasFirst(stationName, type, additional) ==
    LET mapping == findStationCode(stationName, type)
        c1 == AddExplicit(IF mapping # Null THEN <<mapping>> ELSE <<>>, additional)
        sanitized == StripWs(stationName)
        mappedSanitized == IF sanitized # stationName
                           THEN findStationCode(sanitized, type) ELSE Null
        c3 == IF mappedSanitized # Null THEN SetAdd(c1, mappedSanitized) ELSE c1
    IN  IF IsNumeric(Trim(stationName)) THEN SetAdd(c3, Trim(stationName)) ELSE c3

collectCandidateCodes(stationName, type, additional) ==
    LET c1 == AddExplicit(<<>>, additional)
        mapping == findStationCode(stationName, type)
        c2 == IF mapping # Null THEN SetAdd(c1, mapping) ELSE c1
        sanitized == StripWs(stationName)
        mappedSanitized == IF sanitized # stationName
                           THEN findStationCode(sanitized, type) ELSE Null
        c3 == IF mappedSanitized # Null THEN SetAdd(c2, mappedSanitized) ELSE c2
        c4 == IF IsNumeric(Trim(stationName)) THEN SetAdd(c3, Trim(stationName)) ELSE c3
    IN  c4

(***************************************************************************)
(* Record resolver                                                         *)
(***************************************************************************)
None == [none |-> TRUE]

\* Array.prototype.find on the station code: index of the first record whose
\* trimmed code equals the candidate, 0 when there is none
FindIndex(snapshot, normalized) ==
    LET hits == {i \in 1..Len(snapshot) : normalizeCode(snapshot[i].code) = normalized}
    IN  IF hits = {} THEN 0 ELSE CHOOSE i \in hits : \A j \in hits : i <= j

\* mutant: the scan goes over the snapshot, and returns the first record whose
\* code is one of the candidates
RECURSIVE resolveWaterLevelRecord_SnapshotOrder(_, _)
resolveWaterLevelRecord_SnapshotOrder(snapshot, codes) ==
    IF snapshot = <<>> THEN None
    ELSE LET rec == Head(snapshot)
             waterLevel == ParseFloat(rec.wl)
         IN  IF (\E i \in 1..Len(codes) : normalizeCode(codes[i]) = normalizeCode(rec.code))
                /\ waterLevel # NaN
             THEN [code |-> normalizeCode(rec.code),
                   data |-> [obs_code |-> normalizeCode(rec.code),
                             water_level |-> waterLevel]]
             ELSE resolveWaterLevelRecord_SnapshotOrder(Tail(snapshot), codes)

RECURSIVE resolveWaterLevelRecord(_, _)
resolveWaterLevelRecord(snapshot, codes) ==
    IF codes = <<>> THEN None
    ELSE LET normalized == normalizeCode(Head(codes))
             k == FindIndex(snapshot, normalized)
             waterLevel == IF k = 0 THEN NaN ELSE ParseFloat(snapshot[k].wl)
         IN  IF k = 0 THEN resolveWaterLevelRecord(snapshot, Tail(codes))
             ELSE IF waterLevel = NaN \/ snapshot[k].wl = <<>> \/ snapshot[k].wl = <<" ">>
                  THEN resolveWaterLevelRecord(snapshot, Tail(codes))
                  ELSE [code |-> normalized,
                        data |-> [obs_code |-> normalized, water_level |-> waterLevel]]

\* parseRainfallValue(record, keys, fallback): first key present in the record
\* whose value is not null, not blank and parses
RECURSIVE parseRainfallValue(_, _, _)
parseRainfallValue(record, keys, fallback) ==
    IF keys = <<>> THEN fallback
    ELSE LET key == Head(keys)
             raw == IF key \in DOMAIN record THEN record[key] ELSE Null
         IN  IF key \notin DOMAIN record \/ raw = Null \/ Trim(raw) = <<>>
                \/ ParseFloat(Trim(raw)) = NaN
             THEN parseRainfallValue(record, Tail(keys), fallback)
             ELSE ParseFloat(Trim(raw))

\* getRainfallStatus, thresholds 0, 1, 3, 5 mm
getRainfallStatus(rainfall) ==
    IF rainfall = NaN \/ rainfall <= 0 THEN "none"
    ELSE IF rainfall < 1 * Scale THEN "weak"
    ELSE IF rainfall < 3 * Scale THEN "moderate"
    ELSE IF rainfall < 5 * Scale THEN "strong"
    ELSE "very strong"

RECURSIVE resolveRainfallRecord(_, _)
resolveRainfallRecord(snapshot, codes) ==
    IF codes = <<>> THEN None
    ELSE LET normalized == normalizeCode(Head(codes))
             k == FindIndex(snapshot, normalized)
             currentRainfall ==
                 IF k = 0 THEN NaN
                 ELSE parseRainfallValue(snapshot[k], <<"rf", "rainfall", "rf_now">>, NaN)
         IN  IF k = 0 \/ currentRainfall = NaN
             THEN resolveRainfallRecord(snapshot, Tail(codes))
             ELSE [code |-> normalized,
                   data |-> [stationCode |-> normalized,
                             currentRainfall |-> currentRainfall,
                             status |-> getRainfallStatus(currentRainfall)]]

\* mutant: a level equal to the limit counts as exceeded
analyzeWaterLevel_EqualExceeds(currentLevel, floodLimitLevel) ==
    LET difference == IF floodLimitLevel = NaN THEN NaN ELSE currentLevel - floodLimitLevel
    IN  IF floodLimitLevel # NaN /\ floodLimitLevel <= 0
        THEN [status |-> "insufficient", level_difference |-> NaN,
              risk_level |-> "unknown", flood_limit_level |-> floodLimitLevel]
        ELSE IF difference # NaN /\ difference >= 0
        THEN [status |-> "exceeded", level_difference |-> difference,
              risk_level |-> "high", flood_limit_level |-> floodLimitLevel]
        ELSE IF difference # NaN /\ difference > 0 - Scale
        THEN [status |-> "near-limit", level_difference |-> difference,
              risk_level |-> "medium", flood_limit_level |-> floodLimitLevel]
        ELSE [status |-> "safe", level_difference |-> difference,
              risk_level |-> "low", flood_limit_level |-> floodLimitLevel]

\* analyzeWaterLevel(currentLevel, floodLimitLevel); the comparisons with NaN
\* are false, as in the source
analyzeWaterLevel(currentLevel, floodLimitLevel) ==
    LET difference == IF floodLimitLevel = NaN THEN NaN ELSE currentLevel - floodLimitLevel
    IN  IF floodLimitLevel # NaN /\ floodLimitLevel <= 0
        THEN [status |-> "insufficient", level_difference |-> NaN,
              risk_level |-> "unknown", flood_limit_level |-> floodLimitLevel]
        ELSE IF difference # NaN /\ difference > 0
        THEN [status |-> "exceeded", level_difference |-> difference,
              risk_level |-> "high", flood_limit_level |-> floodLimitLevel]
        ELSE IF difference # NaN /\ difference > 0 - Scale
        THEN [status |-> "near-limit", level_difference |-> difference,
              risk_level |-> "medium", flood_limit_level |-> floodLimitLevel]
        ELSE [status |-> "safe", level_difference |-> difference,
              risk_level |-> "low", flood_limit_level |-> floodLimitLevel]

RECURSIVE resolveDamRecord(_, _)
resolveDamRecord(snapshots, codes) ==
    IF codes = <<>> THEN None
    ELSE LET normalized == normalizeCode(Head(codes))
             k == FindIndex(snapshots.realtime, normalized)
             m == FindIndex(snapshots.info, normalized)
             waterLevel == IF k = 0 THEN NaN ELSE ParseFloat(snapshots.realtime[k].swl)
             floodLimitLevel ==
                 IF m = 0 \/ snapshots.info[m].fldlmtwl = Null
                    \/ snapshots.info[m].fldlmtwl = <<>>
                 THEN 0 ELSE ParseFloat(snapshots.info[m].fldlmtwl)
         IN  IF k = 0 \/ waterLevel = NaN
             THEN resolveDamRecord(snapshots, Tail(codes))
             ELSE [code |-> normalized,
                   data |-> [obs_code |-> normalized,
                             water_level |-> waterLevel,
                             flood_limit_level |-> floodLimitLevel,
                             water_level_analysis |->
                                 analyzeWaterLevel(waterLevel, floodLimitLevel)]]

(***************************************************************************)
(* Time-series analyzer                                                    *)
(***************************************************************************)
\* extractValue(entry, field) for a single field name: entry.v is the raw
\* property, Null when the entry or the property is missing
NullEntry == [null |-> TRUE]

extractValue(entry) ==
    IF "null" \in DOMAIN entry THEN NaN
    ELSE IF entry.v = Null \/ entry.v = <<>> THEN NaN
    ELSE ParseFloat(entry.v)

Abs(x) == IF x < 0 THEN 0 - x ELSE x

\* mutant: the threshold is strict (a change of exactly 0.1 is stable)
analyzeTrend_StrictThreshold(data) ==
    IF Len(data) < 2
    THEN [direction |-> "stable", change |-> 0, description |-> "insufficient data"]
    ELSE LET latest == extractValue(data[1])
             previous == extractValue(data[2])
             change == latest - previous
         IN  IF ~IsFinite(latest) \/ ~IsFinite(previous)
             THEN [direction |-> "stable", change |-> 0,
                   description |-> "insufficient data"]
             ELSE IF Abs(change) > Scale \div 10
                  THEN IF change > 0
                       THEN [direction |-> "rising", change |-> change,
                             description |-> "increase"]
                       ELSE [direction |-> "falling", change |-> change,
                             description |-> "decrease"]
                  ELSE [direction |-> "stable", change |-> change,
                        description |-> "no change"]

analyzeTrend(data) ==
    IF Len(data) < 2
    THEN [direction |-> "stable", change |-> 0, description |-> "insufficient data"]
    ELSE LET latest == extractValue(data[1])
             previous == extractValue(data[2])
             change == latest - previous
         IN  IF ~IsFinite(latest) \/ ~IsFinite(previous)
             THEN [direction |-> "stable", change |-> 0,
                   description |-> "insufficient data"]
             ELSE IF Abs(change) >= Scale \div 10
                  THEN IF change > 0
                       THEN [direction |-> "rising", change |-> change,
                             description |-> "increase"]
                       ELSE [direction |-> "falling", change |-> change,
                             description |-> "decrease"]
                  ELSE [direction |-> "stable", change |-> change,
                        description |-> "no change"]


(***************************************************************************)
(* Harness for the pure functions: Init draws one input, one action per    *)
(* function applies it.                                                    *)
(***************************************************************************)
SeqsUpTo(S, n) == UNION {[1..k -> S] : k \in 0..n}

RawValues == {<<>>, <<" ">>, <<"x">>, <<"4", "2">>}
SnapCodes == {<<"1">>, <<"2">>, <<"1", " ">>}
CandCodes == {<<"1">>, <<"2">>, <<" ", "1">>}

WaterLevelRecords == [code : SnapCodes, wl : RawValues]
RainfallRecords == [code : SnapCodes, rf : RawValues] \cup [code : SnapCodes]
DamRealtimeRecords == [code : SnapCodes, swl : RawValues]
DamInfoLists ==
    {<<>>,
     <<[code |-> <<"1">>, fldlmtwl |-> <<"4", "2">>]>>,
     <<[code |-> <<"1">>, fldlmtwl |-> <<>>]>>}

StationNames ==
    {<<>>, NameAD, <<"a", " ", "D">>, <<"a", "D", " ">>, <<"a">>, NameB,
     <<"c">>, <<"7">>, <<" ", "7">>, Code31}
ExplicitCodes == {Null, <<>>, Code31, <<" ", "3", "9">>, <<"7">>}

MaxStep == 6
LevelStep == Scale \div 2
Levels == {LevelStep * i : i \in (0 - 2)..MaxStep}

S1_0 == <<"1", ".", "0">>
S1_05 == <<"1", ".", "0", "5">>
S1_1 == <<"1", ".", "1">>
S1_2 == <<"1", ".", "2">>
S0_9 == <<"0", ".", "9">>
SeriesEntries ==
    {NullEntry} \cup [v : {Null, <<>>, <<"x">>, S1_0, S1_05, S1_1, S1_2, S0_9}]

PureInputs ==
    [fn : {"resolveWaterLevelRecord"},
     snapshot : SeqsUpTo(WaterLevelRecords, MaxSnap),
     codes : SeqsUpTo(CandCodes, MaxCodes)]
    \cup
    [fn : {"resolveRainfallRecord"},
     snapshot : SeqsUpTo(RainfallRecords, MaxSnap),
     codes : SeqsUpTo(CandCodes, MaxCodes)]
    \cup
    [fn : {"resolveDamRecord"},
     realtime : SeqsUpTo(DamRealtimeRecords, MaxSnap),
     info : DamInfoLists,
     codes : SeqsUpTo(CandCodes, MaxCodes)]
    \cup
    [fn : {"collectCandidateCodes"},
     stationName : StationNames,
     type : Kinds,
     additional : SeqsUpTo(ExplicitCodes, MaxExplicit)]
    \cup
    [fn : {"analyzeWaterLevel"}, currentLevel : Levels, floodLimitLevel : Levels]
    \cup
    [fn : {"analyzeTrend"}, data : SeqsUpTo(SeriesEntries, MaxSeries)]

InitPure ==
    /\ op = "none"
    /\ inp \in PureInputs
    /\ out = None
    /\ stationCache = <<>>
    /\ lastFetchTime = 0
    /\ now = 1
    /\ proc = <<>>
    /\ ncalls = 0
    /\ hist = <<>>
    /\ call = <<>>

DoResolveWaterLevelRecord ==
    /\ op = "none" /\ inp.fn = "resolveWaterLevelRecord"
    /\ op' = inp.fn
    /\ out' = resolveWaterLevelRecord(inp.snapshot, inp.codes)
    /\ UNCHANGED <<inp, varsSM, varsSearch>>

DoResolveRainfallRecord ==
    /\ op = "none" /\ inp.fn = "resolveRainfallRecord"
    /\ op' = inp.fn
    /\ out' = resolveRainfallRecord(inp.snapshot, inp.codes)
    /\ UNCHANGED <<inp, varsSM, varsSearch>>

DoResolveDamRecord ==
    /\ op = "none" /\ inp.fn = "resolveDamRecord"
    /\ op' = inp.fn
    /\ out' = resolveDamRecord([realtime |-> inp.realtime, info |-> inp.info], inp.codes)
    /\ UNCHANGED <<inp, varsSM, varsSearch>>

DoCollectCandidateCodes ==
    /\ op = "none" /\ inp.fn = "collectCandidateCodes"
    /\ op' = inp.fn
    /\ out' = collectCandidateCodes(inp.stationName, inp.type, inp.additional)
    /\ UNCHANGED <<inp, varsSM, varsSearch>>

DoAnalyzeWaterLevel ==
    /\ op = "none" /\ inp.fn = "analyzeWaterLevel"
    /\ op' = inp.fn
    /\ out' = analyzeWaterLevel(inp.currentLevel, inp.floodLimitLevel)
    /\ UNCHANGED <<inp, varsSM, varsSearch>>

DoAnalyzeTrend ==
    /\ op = "none" /\ inp.fn = "analyzeTrend"
    /\ op' = inp.fn
    /\ out' = analyzeTrend(inp.data)
    /\ UNCHANGED <<inp, varsSM, varsSearch>>

NextPure ==
    \/ DoResolveWaterLevelRecord
    \/ DoResolveRainfallRecord
    \/ DoResolveDamRecord
    \/ DoCollectCandidateCodes
    \/ DoAnalyzeWaterLevel
    \/ DoAnalyzeTrend

SpecPure == InitPure /\ [][NextPure]_vars


(***************************************************************************)
(* Properties of the pure functions (checked under SpecPure)               *)
(***************************************************************************)
MinOf(S) == CHOOSE i \in S : \A j \in S : i <= j

\* the record a candidate code designates: the first record of the snapshot
\* whose trimmed code equals the trimmed candidate (0: no such record)
RecordOf(snapshot, c) ==
    LET hits == {i \in 1..Len(snapshot) : Trim(snapshot[i].code) = Trim(c)}
    IN  IF hits = {} THEN 0 ELSE MinOf(hits)

ValueWL(rec) == ParseFloat(rec.wl)
ValueRF(rec) == IF "rf" \in DOMAIN rec THEN ParseFloat(rec.rf) ELSE NaN
ValueSWL(rec) == ParseFloat(rec.swl)

\* candidates, by position in the codes list, whose record has a parseable value
Qualifying(snapshot, codes, Value(_)) ==
    {i \in 1..Len(codes) :
        /\ RecordOf(snapshot, codes[i]) # 0
        /\ Value(snapshot[RecordOf(snapshot, codes[i])]) # NaN}

FirstQualifying(result, reading, snapshot, codes, Value(_)) ==
    LET q == Qualifying(snapshot, codes, Value)
    IN  IF q = {} THEN result = None
        ELSE /\ result # None
             /\ result.code = Trim(codes[MinOf(q)])
             /\ reading # NaN
             /\ reading = Value(snapshot[RecordOf(snapshot, codes[MinOf(q)])])

\* C4: the resolvers return the first candidate, in the order of the codes
\* list, whose snapshot record has a parseable primary value; candidates with
\* a blank or unparseable value are skipped; the result is none exactly when
\* no candidate qualifies, and a returned reading is never unparseable.
C4_CandidateOrderResolution ==
    /\ op = "resolveWaterLevelRecord" =>
          FirstQualifying(out, IF out = None THEN NaN ELSE out.data.water_level,
                          inp.snapshot, inp.codes, ValueWL)
    /\ op = "resolveRainfallRecord" =>
          FirstQualifying(out, IF out = None THEN NaN ELSE out.data.currentRainfall,
                          inp.snapshot, inp.codes, ValueRF)
    /\ op = "resolveDamRecord" =>
          FirstQualifying(out, IF out = None THEN NaN ELSE out.data.water_level,
                          inp.realtime, inp.codes, ValueSWL)

\* C4 witness: candidate A matches a record with a blank value, candidate B
\* matches a record with a value, B's record precedes A's in the snapshot,
\* and the resolver returned B.
C4_Witness ==
    /\ op = "resolveWaterLevelRecord"
    /\ Len(inp.codes) = 2
    /\ RecordOf(inp.snapshot, inp.codes[1]) # 0
    /\ RecordOf(inp.snapshot, inp.codes[2]) # 0
    /\ RecordOf(inp.snapshot, inp.codes[2]) < RecordOf(inp.snapshot, inp.codes[1])
    /\ inp.snapshot[RecordOf(inp.snapshot, inp.codes[1])].wl = <<>>
    /\ out # None
    /\ out.code = Trim(inp.codes[2])
    /\ out.data.water_level = 42 * Scale

RECURSIVE Dedup(_, _)
Dedup(seq, seen) ==
    IF seq = <<>> THEN <<>>
    ELSE IF Head(seq) \in seen THEN Dedup(Tail(seq), seen)
    ELSE <<Head(seq)>> \o Dedup(Tail(seq), seen \cup {Head(seq)})

RECURSIVE TrimmedExplicit(_)
TrimmedExplicit(additional) ==
    IF additional = <<>> THEN <<>>
    ELSE (IF Head(additional) = Null \/ Trim(Head(additional)) = <<>>
          THEN <<>> ELSE <<Trim(Head(additional))>>)
         \o TrimmedExplicit(Tail(additional))

AliasPart(name, type) ==
    IF findStationCode(name, type) = Null THEN <<>> ELSE <<findStationCode(name, type)>>

PriorityList(name, type, additional, numericPart) ==
    Dedup(TrimmedExplicit(additional) \o AliasPart(name, type)
          \o AliasPart(StripWs(name), type) \o numericPart, {})

\* C5 as stated: explicit codes, alias code of the raw name, alias code of the
\* whitespace-stripped name, then the name itself only if it is purely
\* numeric; duplicates kept at their first position.
C5_AsStated ==
    op = "collectCandidateCodes" =>
        out = PriorityList(inp.stationName, inp.type, inp.additional,
                           IF IsNumeric(inp.stationName)
                           THEN <<inp.stationName>> ELSE <<>>)

\* C5 amended: as above, but the last element is the trimmed name, added when
\* the trimmed name is purely numeric.
C5_CandidatePriority ==
    op = "collectCandidateCodes" =>
        out = PriorityList(inp.stationName, inp.type, inp.additional,
                           IF IsNumeric(Trim(inp.stationName))
                           THEN <<Trim(inp.stationName)>> ELSE <<>>)

\* C5 witness: a call with an explicit code that is also the alias code of the
\* name (kept once, at the explicit position) and a second explicit code.
C5_Witness ==
    /\ op = "collectCandidateCodes"
    /\ inp.stationName = NameAD /\ inp.type = "dam"
    /\ inp.additional = <<Code31, <<"7">> >>
    /\ out = <<Code31, <<"7">> >>

\* C5 witness of the amended case: a numeric name with surrounding whitespace
\* contributes its trimmed form, after the explicit codes.
C5_WitnessTrimmed ==
    /\ op = "collectCandidateCodes"
    /\ inp.stationName = <<" ", "7">>
    /\ inp.additional = <<Code31>>
    /\ out = <<Code31, <<"7">> >>

\* C6: analyzeWaterLevel assigns exactly one status: limit <= 0 gives
\* insufficient/unknown; otherwise difference > 0 exceeded/high,
\* -1 < difference <= 0 near-limit/medium, difference <= -1 safe/low; a
\* missing limit in resolveDamRecord is read as 0.
C6_FloodLimitAnalysis ==
    /\ op = "analyzeWaterLevel" =>
          LET limit == inp.floodLimitLevel
              d == inp.currentLevel - inp.floodLimitLevel
          IN  /\ (out.status = "insufficient" /\ out.risk_level = "unknown") <=> limit <= 0
              /\ (out.status = "exceeded" /\ out.risk_level = "high")
                     <=> (limit > 0 /\ d > 0)
              /\ (out.status = "near-limit" /\ out.risk_level = "medium")
                     <=> (limit > 0 /\ d > 0 - Scale /\ d <= 0)
              /\ (out.status = "safe" /\ out.risk_level = "low")
                     <=> (limit > 0 /\ d <= 0 - Scale)
              /\ out.status \in {"insufficient", "exceeded", "near-limit", "safe"}
              /\ out.risk_level \in {"unknown", "high", "medium", "low"}
    /\ (op = "resolveDamRecord" /\ out # None) =>
          LET m == RecordOf(inp.info, out.code)
          IN  (m = 0 \/ inp.info[m].fldlmtwl = <<>>) =>
                 /\ out.data.flood_limit_level = 0
                 /\ out.data.water_level_analysis.status = "insufficient"
                 /\ out.data.water_level_analysis.risk_level = "unknown"

\* C6 witness: a level exactly equal to a positive limit, classified
\* near-limit and not exceeded.
C6_Witness ==
    /\ op = "analyzeWaterLevel"
    /\ inp.floodLimitLevel > 0
    /\ inp.currentLevel = inp.floodLimitLevel
    /\ out.status = "near-limit"

\* C7: analyzeTrend looks only at entries 0 and 1: rising iff
\* delta >= 0.1, falling iff delta <= -0.1, stable otherwise, change = delta;
\* fewer than two entries or a non-finite value give the neutral result.
C7_TrendThreshold ==
    op = "analyzeTrend" =>
        LET ok == /\ Len(inp.data) >= 2
                  /\ extractValue(inp.data[1]) # NaN
                  /\ extractValue(inp.data[2]) # NaN
            delta == extractValue(inp.data[1]) - extractValue(inp.data[2])
        IN  IF ~ok
            THEN out = [direction |-> "stable", change |-> 0,
                        description |-> "insufficient data"]
            ELSE /\ out.change = delta
                 /\ out.description # "insufficient data"
                 /\ out.direction = "rising" <=> 10 * delta >= Scale
                 /\ out.direction = "falling" <=> 10 * delta <= 0 - Scale
                 /\ out.direction = "stable" <=> (10 * delta < Scale /\ 10 * delta > 0 - Scale)

\* C7 witness: a delta of exactly 0.1 (1.1 after 1.0) reported as rising,
\* with a third entry present.
C7_Witness ==
    /\ op = "analyzeTrend"
    /\ Len(inp.data) = 3
    /\ inp.data[1] = [v |-> S1_1] /\ inp.data[2] = [v |-> S1_0]
    /\ out.direction = "rising" /\ out.change = Scale \div 10


(***************************************************************************)
(* StationManager: the directory cache                                     *)
(***************************************************************************)
Procs == {1, 2}
CacheDuration == 2      \* cacheDurationMs, in clock ticks

\* the order in which fetchAllStations walks the kinds
RefreshOrder == <<"waterlevel", "rainfall", "dam">>
\* the order in which searchByName walks the kinds when no kind is given
SearchOrder == <<"dam", "waterlevel", "rainfall">>

Obs(code, name, location, river) ==
    [obs_code |-> code, obs_name |-> name, location |-> location, river_name |-> river]

NameA == <<"a">>
NameC == <<"c">>
Code33 == <<"3", "3">>
Code40 == <<"4", "0">>
Code50 == <<"5", "0">>

\* what getObservatories(kind) can return: listings of the upstream
\* /{kind}/info.xml resource (a client other than FloodControlAPI may hand
\* over records without a name)
Listings ==
    [dam |-> { << Obs(Code31, NameAD, Null, Null), Obs(Code32, NameADb, Null, NameC) >>,
               << Obs(Code31, NameAD, Null, Null), Obs(Code33, <<>>, Null, Null) >> },
     waterlevel |-> { << Obs(Code39, NameAD, Null, Null), Obs(Code18, NameB, NameC, Null) >>,
                      << Obs(Code40, NameAD, Null, Null) >> },
     rainfall |-> { << Obs(Code50, NameC, Null, Null) >> }]

Throw == [throw |-> TRUE]
Threw(outcome) == "throw" \in DOMAIN outcome
ListingOutcomes(kind) == {Throw} \cup {[list |-> l] : l \in Listings[kind]}

\* Map.prototype.get / has / set on the insertion-ordered cache
CacheHas(cache, kind) == \E i \in 1..Len(cache) : cache[i].kind = kind
CacheGet(cache, kind) ==
    IF CacheHas(cache, kind)
    THEN cache[CHOOSE i \in 1..Len(cache) : cache[i].kind = kind].list
    ELSE <<>>
CacheSet(cache, kind, list) ==
    IF CacheHas(cache, kind)
    THEN [i \in 1..Len(cache) |->
            IF cache[i].kind = kind THEN [kind |-> kind, list |-> list] ELSE cache[i]]
    ELSE Append(cache, [kind |-> kind, list |-> list])

\* mutant: every observatory of the listing is stored, vetted or not
ToStationInfos_Unfiltered(observatories, type) ==
    [i \in 1..Len(observatories) |->
        [code |-> observatories[i].obs_code, name |-> observatories[i].obs_name,
         type |-> type, location |-> observatories[i].location,
         river_name |-> observatories[i].river_name]]

\* lines 83-91: keep the observatories with a code and a name, as StationInfo
RECURSIVE ToStationInfos(_, _)
ToStationInfos(observatories, type) ==
    IF observatories = <<>> THEN <<>>
    ELSE LET obs == Head(observatories)
         IN  (IF obs.obs_code # <<>> /\ obs.obs_name # <<>>
              THEN << [code |-> obs.obs_code, name |-> obs.obs_name, type |-> type,
                       location |-> obs.location, river_name |-> obs.river_name] >>
              ELSE <<>>)
             \o ToStationInfos(Tail(observatories), type)

\* dedupeByCode: Array.from(new Map(items.map(i => [i.code, i])).values());
\* a code keeps the position of its first item and the value of its last
DedupeByCode(stations) ==
    LET firsts == {i \in 1..Len(stations) :
                      \A j \in 1..(i - 1) : stations[j].code # stations[i].code}
        LastOf(i) == CHOOSE j \in 1..Len(stations) :
                        /\ stations[j].code = stations[i].code
                        /\ \A k \in (j + 1)..Len(stations) : stations[k].code # stations[i].code
        RECURSIVE Build(_)
        Build(i) == IF i > Len(stations) THEN <<>>
                    ELSE (IF i \in firsts THEN <<stations[LastOf(i)]>> ELSE <<>>)
                         \o Build(i + 1)
    IN  Build(1)

findMatches(stations, query) ==
    LET exactMatches == SelectSeq(stations, LAMBDA st : st.name = query)
        partialMatches ==
            SelectSeq(stations, LAMBDA st :
                \/ (st.name # <<>> /\ Includes(st.name, query))
                \/ (st.name # <<>> /\ Includes(query, st.name))
                \/ (st.location # Null /\ st.location # <<>> /\ Includes(st.location, query))
                \/ (st.river_name # Null /\ st.river_name # <<>>
                        /\ Includes(st.river_name, query)))
    IN  IF stations = <<>> THEN <<>>
        ELSE IF exactMatches # <<>> THEN DedupeByCode(exactMatches)
        ELSE DedupeByCode(partialMatches)

RECURSIVE SearchKinds(_, _, _)
SearchKinds(cache, query, searchTypes) ==
    IF searchTypes = <<>> THEN <<>>
    ELSE LET matches == findMatches(CacheGet(cache, Head(searchTypes)), query)
         IN  IF matches # <<>> THEN matches
             ELSE SearchKinds(cache, query, Tail(searchTypes))

\* searchByName after its await: type is a kind or "any"
searchByName(cache, query, type) ==
    SearchKinds(cache, query, IF type = "any" THEN SearchOrder ELSE <<type>>)

\* getByCode after its await: the first station with the code, walking the
\* cache entries in insertion order; a list of at most one station
RECURSIVE getByCode(_, _)
getByCode(cache, code) ==
    IF cache = <<>> THEN <<>>
    ELSE LET hit == SelectSeq(Head(cache).list, LAMBDA st : st.code = code)
         IN  IF hit # <<>> THEN <<Head(hit)>> ELSE getByCode(Tail(cache), code)

\* mutant: the freshness window is one tick too short
CacheValid_ShortWindow(last, t) == last # 0 /\ (t - last) < CacheDuration - 1

\* the guard of fetchAllStations (line 66)
CacheValid(last, t) == last # 0 /\ (t - last) < CacheDuration

\* mutant: a failed listing fetch resets the kind's entry
StoreOutcome_ClearOnError(cache, kind, outcome) ==
    IF Threw(outcome) THEN CacheSet(cache, kind, <<>>)
    ELSE CacheSet(cache, kind, ToStationInfos(outcome.list, kind))

\* the body of the loop of fetchAllStations for one kind: the listing is
\* filtered and stored, or the error is caught and the cache is left alone
StoreOutcome(cache, kind, outcome) ==
    IF Threw(outcome) THEN cache
    ELSE CacheSet(cache, kind, ToStationInfos(outcome.list, kind))

\* mutant: a refresh in which every listing fetch failed leaves lastFetchTime
\* as it was
MarkFetched_UnlessAllFailed(previous, started, failed) ==
    IF failed = Kinds THEN previous ELSE started

\* this.lastFetchTime = now at the end of fetchAllStations (line 106): the
\* time read on entry, whatever the fetches of the loop did
MarkFetched(previous, started, failed) == started

NoRefresh == [started |-> 0, done |-> 0, forced |-> FALSE]

IdleProc ==
    [pc |-> "idle", op |-> "none", query |-> <<>>, type |-> "any", localNow |-> 0,
     fetches |-> 0, startFresh |-> FALSE, threw |-> {},
     before |-> <<>>, prev |-> NoRefresh, result |-> <<>>]

InFlight(p) == proc[p].pc \notin {"idle", "done"}

KindIndex(kind) == CHOOSE i \in 1..Len(RefreshOrder) : RefreshOrder[i] = kind
AwaitPc(kind) ==
    CASE kind = "waterlevel" -> "await_waterlevel"
      [] kind = "rainfall" -> "await_rainfall"
      [] kind = "dam" -> "await_dam"

SeqProcs == {1}
SMQueries == {NameAD, NameA, NameC}
SMCodes == {Code31, Code39}

\* mutant: refreshCache leaves lastFetchTime alone, so the guard of
\* fetchAllStations decides
StartingLastFetch_NotForced(o, last) == last

\* refreshCache zeroes lastFetchTime before it calls fetchAllStations
StartingLastFetch(o, last) == IF o = "refreshCache" THEN 0 ELSE last

\* A call starts: refreshCache first zeroes lastFetchTime; fetchAllStations
\* runs up to its first await (the guard, now, the first getObservatories)
Start(p, o, query, type) ==
    /\ proc[p].pc = "idle"
    /\ ncalls < MaxCalls
    /\ ncalls' = ncalls + 1
    /\ LET last == StartingLastFetch(o, lastFetchTime)
           valid == CacheValid(last, now)
       IN  /\ lastFetchTime' = last
           /\ proc' = [q \in Procs |->
                 IF q = p
                 THEN [IdleProc EXCEPT
                        !.pc = IF valid THEN "search" ELSE AwaitPc(RefreshOrder[1]),
                        !.op = o, !.query = query, !.type = type,
                        !.localNow = now,
                        !.fetches = IF valid THEN 0 ELSE 1,
                        !.startFresh = valid,
                        !.before = stationCache,
                        !.prev = hist]
                 ELSE proc[q]]
    /\ UNCHANGED <<stationCache, now, hist>>

StartSearchByName(p) ==
    \E query \in SMQueries, type \in Kinds \cup {"any"} :
        Start(p, "searchByName", query, type) /\ UNCHANGED <<varsPure, varsSearch>>

StartGetByCode(p) ==
    \E code \in SMCodes :
        Start(p, "getByCode", code, "any") /\ UNCHANGED <<varsPure, varsSearch>>

StartRefreshCache(p) ==
    Start(p, "refreshCache", <<>>, "any") /\ UNCHANGED <<varsPure, varsSearch>>

\* getObservatories(kind) settles: the listing is stored, or the error is
\* caught and logged; then the loop goes on to the next kind, or the refresh
\* ends and sets lastFetchTime
Respond(p) ==
    \E kind \in Kinds :
        /\ proc[p].pc = AwaitPc(kind)
        /\ \E outcome \in ListingOutcomes(kind) :
            LET i == KindIndex(kind)
                last == i = Len(RefreshOrder)
            IN  /\ stationCache' = StoreOutcome(stationCache, kind, outcome)
                /\ lastFetchTime' =
                      IF last
                      THEN MarkFetched(lastFetchTime, proc[p].localNow,
                               proc[p].threw \cup (IF Threw(outcome) THEN {kind} ELSE {}))
                      ELSE lastFetchTime
                /\ hist' = IF last
                           THEN [started |-> proc[p].localNow, done |-> now,
                                 forced |-> proc[p].op = "refreshCache"]
                           ELSE hist
                /\ proc' = [proc EXCEPT
                      ![p].pc = IF last THEN "search" ELSE AwaitPc(RefreshOrder[i + 1]),
                      ![p].fetches = IF last THEN @ ELSE @ + 1,
                      ![p].threw = IF Threw(outcome) THEN @ \cup {kind} ELSE @]
        /\ UNCHANGED <<now, ncalls, varsPure, varsSearch>>

\* the call resumes after await fetchAllStations() and returns
Finish(p) ==
    /\ proc[p].pc = "search"
    /\ proc[p].op \in {"searchByName", "getByCode", "refreshCache"}
    /\ proc' = [proc EXCEPT
          ![p].pc = "done",
          ![p].result =
              IF proc[p].op = "searchByName"
              THEN searchByName(stationCache, proc[p].query, proc[p].type)
              ELSE IF proc[p].op = "getByCode"
              THEN getByCode(stationCache, proc[p].query)
              ELSE <<>>]
    /\ UNCHANGED <<stationCache, lastFetchTime, now, ncalls, hist, varsPure, varsSearch>>

\* the caller has consumed the result
Return(p) ==
    /\ proc[p].pc = "done"
    /\ proc' = [proc EXCEPT ![p] = IdleProc]
    /\ UNCHANGED <<stationCache, lastFetchTime, now, ncalls, hist, varsPure, varsSearch>>

Tick ==
    /\ now < MaxTime
    /\ now' = now + 1
    /\ UNCHANGED <<stationCache, lastFetchTime, proc, ncalls, hist, varsPure, varsSearch>>

InitSM ==
    /\ op = "none" /\ inp = None /\ out = None
    /\ stationCache = <<>>
    /\ lastFetchTime = 0
    /\ now = 1
    /\ proc = [p \in Procs |-> IdleProc]
    /\ ncalls = 0
    /\ hist = NoRefresh
    /\ call = None

NextSM ==
    \/ \E p \in SeqProcs : StartSearchByName(p)
    \/ \E p \in SeqProcs : StartGetByCode(p)
    \/ \E p \in SeqProcs : StartRefreshCache(p)
    \/ \E p \in SeqProcs : Respond(p)
    \/ \E p \in SeqProcs : Finish(p)
    \/ \E p \in SeqProcs : Return(p)
    \/ Tick

SpecSM == InitSM /\ [][NextSM]_vars

(***************************************************************************)
(* FloodControlAPI.searchAndGetData                                        *)
(***************************************************************************)
\* keyword lists, reduced to one keyword each ("R": the rainfall keyword of
\* one character, "D": the dam keyword, "W": the water-level keyword, "T": a
\* keyword that asks for an analysis)
rainfallKeywords == {<<"R">>}
damKeywords == {<<"D">>}
waterLevelKeywords == {<<"W">>}
avoidKeywords == {<<"T">>}
quickKeywords == {<<"W">>, <<"D">>}

HasKeyword(query, keywords) == \E keyword \in keywords : Includes(query, keyword)

isQuickQuery(rawQuery) ==
    LET normalized == Trim(rawQuery)
    IN  /\ normalized # <<>>
        /\ ~HasKeyword(normalized, avoidKeywords)
        /\ HasKeyword(normalized, quickKeywords)

DigitChar(d) ==
    CASE d = 0 -> "0" [] d = 1 -> "1" [] d = 2 -> "2" [] d = 3 -> "3"
      [] d = 4 -> "4" [] d = 5 -> "5" [] d = 6 -> "6" [] d = 7 -> "7"
      [] d = 8 -> "8" [] d = 9 -> "9"

RECURSIVE NatToString(_)
NatToString(n) ==
    IF n < 10 THEN <<DigitChar(n)>>
    ELSE NatToString(n \div 10) \o <<DigitChar(n % 10)>>

\* String(number) for a finite number kept in hundredths
NumberToString(x) ==
    LET mag == Abs(x)
        fr == mag % Scale
        frac == IF fr = 0 THEN <<>>
                ELSE IF fr % 10 = 0 THEN <<".", DigitChar(fr \div 10)>>
                ELSE <<".", DigitChar(fr \div 10), DigitChar(fr % 10)>>
    IN  (IF x < 0 THEN <<"-">> ELSE <<>>) \o NatToString(mag \div Scale) \o frac

\* safeParseNumber(value) with the default fallback null, here NaN
safeParseNumber(value) ==
    IF value = Null \/ value = <<>> THEN NaN ELSE ParseFloat(value)

formatNumberString(value) ==
    LET parsed == safeParseNumber(value)
    IN  IF parsed = NaN THEN <<>> ELSE NumberToString(parsed)

\* normalize*Record: an item without a station code is dropped, the
\* measurement is re-formatted; items are [code, value]
normalizeWaterLevelRecord(item) ==
    IF item.code = Null \/ item.code = <<>> THEN None
    ELSE [code |-> item.code, wl |-> formatNumberString(item.value)]

normalizeRainfallRecord(item) ==
    IF item.code = Null \/ item.code = <<>> THEN None
    ELSE [code |-> item.code, rf |-> formatNumberString(item.value)]

normalizeDamRealtimeRecord(item) ==
    IF item.code = Null \/ item.code = <<>> THEN None
    ELSE [code |-> item.code, swl |-> formatNumberString(item.value)]

normalizeDamInfoRecord(item) ==
    IF item.code = Null \/ item.code = <<>> THEN None
    ELSE [code |-> item.code, fldlmtwl |-> formatNumberString(item.value)]

\* items.map(normalize).filter(Boolean)
fetchWaterLevelSnapshot(items) ==
    LET kept == SelectSeq(items, LAMBDA item : normalizeWaterLevelRecord(item) # None)
    IN  [i \in 1..Len(kept) |-> normalizeWaterLevelRecord(kept[i])]

fetchRainfallSnapshot(items) ==
    LET kept == SelectSeq(items, LAMBDA item : normalizeRainfallRecord(item) # None)
    IN  [i \in 1..Len(kept) |-> normalizeRainfallRecord(kept[i])]

fetchDamSnapshots(feed) ==
    LET keptR == SelectSeq(feed.realtime,
                           LAMBDA item : normalizeDamRealtimeRecord(item) # None)
        keptI == SelectSeq(feed.info, LAMBDA item : normalizeDamInfoRecord(item) # None)
    IN  [realtime |-> [i \in 1..Len(keptR) |-> normalizeDamRealtimeRecord(keptR[i])],
         info |-> [i \in 1..Len(keptI) |-> normalizeDamInfoRecord(keptI[i])]]

\* Array.prototype.sort with a comparator that only separates one kind from
\* the others is a stable partition
KindFirst(results, kind) ==
    SelectSeq(results, LAMBDA st : st.type = kind)
    \o SelectSeq(results, LAMBDA st : st.type # kind)

prioritizeSearchResults(searchResults, isRainfallQuery, isDamQuery, isWaterLevelQuery) ==
    IF isRainfallQuery THEN KindFirst(searchResults, "rainfall")
    ELSE IF isDamQuery THEN KindFirst(searchResults, "dam")
    ELSE IF isWaterLevelQuery THEN KindFirst(searchResults, "waterlevel")
    ELSE SelectSeq(searchResults, LAMBDA st : st.type = "dam")
         \o SelectSeq(searchResults, LAMBDA st : st.type = "rainfall")
         \o SelectSeq(searchResults, LAMBDA st : st.type = "waterlevel")

\* the responses; message is the summary text
BaseResponse ==
    [status |-> "error", message |-> <<>>, type |-> "none", primary |-> <<>>,
     level |-> NaN, water |-> Null, waterLevel |-> NaN, answer |-> "none"]

createErrorResponse(message) ==
    [BaseResponse EXCEPT !.status = "error", !.message = message]

createIntegratedResponse(stationName, stationCode, data) ==
    [BaseResponse EXCEPT !.status = "success", !.message = stationName \o <<" level">>,
        !.type = "waterlevel", !.primary = stationCode, !.level = data.water_level]

createIntegratedRainfallResponse(fallbackName, stationCode, rainfall) ==
    [BaseResponse EXCEPT !.status = "success", !.message = fallbackName \o <<" rainfall">>,
        !.type = "rainfall", !.primary = stationCode, !.level = rainfall.currentRainfall]

\* mutant: the two station codes are taken in the wrong order
createIntegratedDamResponse_SwappedCodes(damName, damCode, waterLevelCode, damData, waterLevelData, directAnswer) ==
    LET primaryData == IF damData # None THEN damData ELSE waterLevelData
    IN  [BaseResponse EXCEPT !.status = "success", !.message = damName \o <<" dam">>,
            !.type = "dam", !.primary = waterLevelCode, !.level = primaryData.water_level,
            !.water = IF waterLevelData # None THEN damCode ELSE Null,
            !.waterLevel = IF waterLevelData # None THEN waterLevelData.water_level
                           ELSE NaN,
            !.answer = directAnswer]

createIntegratedDamResponse(damName, damCode, waterLevelCode, damData, waterLevelData, directAnswer) ==
    LET primaryData == IF damData # None THEN damData ELSE waterLevelData
    IN  [BaseResponse EXCEPT !.status = "success", !.message = damName \o <<" dam">>,
            !.type = "dam", !.primary = damCode, !.level = primaryData.water_level,
            !.water = IF waterLevelData # None THEN waterLevelCode ELSE Null,
            !.waterLevel = IF waterLevelData # None THEN waterLevelData.water_level
                           ELSE NaN,
            !.answer = directAnswer]

\* mutant: the message does not name the query
NotFoundMessage_Generic(query) == <<"station not found">>

\* the two error messages that name the query (lines 519 and 601)
NotFoundMessage(query) == <<"'">> \o query \o <<"'", " station not found">>
NoDataMessage(query) == query \o <<" has no realtime data">>

\* mutant: the error of a failed fetch leaves searchAndGetData as a rejection
HandleThrown_Rethrow(message) ==
    [BaseResponse EXCEPT !.status = "rejected", !.message = message]

\* the catch block of searchAndGetData (lines 602-605)
HandleThrown(message) ==
    createErrorResponse(<<"error while fetching: ">> \o message)

\* what the upstream feeds can deliver: items [code, value] of
\* /waterlevel/list/10M.xml, /rainfall/list/10M.xml, and of /dam/list/10M.xml
\* with /dam/info.xml
Item(code, value) == [code |-> code, value |-> value]

WaterFeeds ==
    { <<>>,
      << Item(Code39, <<"4", "2">>), Item(Code18, <<"7", ".", "5">>) >>,
      << Item(Code40, <<"4", "2">>), Item(Code39, <<"x">>) >> }

RainfallFeeds ==
    { << Item(Code50, <<"0", ".", "5">>) >>,
      << Item(Code50, <<>>), Item(<<>>, <<"1">>) >>,
      << Item(Code39, <<"1">>) >> }

DamFeeds ==
    { [realtime |-> << Item(Code31, <<"4", "2">>) >>,
       info |-> << Item(Code31, <<"4", "1">>) >>],
      [realtime |-> << Item(Code31, <<"x">>) >>, info |-> <<>>],
      [realtime |-> << Item(Code32, <<"4", "2">>) >>, info |-> <<>>] }

Some(x) == [value |-> x]

SearchQueries ==
    {NameAD, NameA, NameB, <<"c", "R">>, Code18, <<"z">>, <<"z", "D">>,
     <<"z", "R", "D">>}

IdleCall ==
    [pc |-> "idle", query |-> <<>>, results |-> <<>>,
     waterSnapshot |-> None, rainfallSnapshot |-> None, damSnapshots |-> None,
     fetched |-> [kind \in Kinds |-> 0], threw |-> FALSE, attempts |-> <<>>,
     resolved |-> FALSE, pending |-> None, response |-> None]

isRainfallQuery(query) == HasKeyword(query, rainfallKeywords)
isDamQuery(query) == HasKeyword(query, damKeywords)
isWaterLevelQuery(query) == HasKeyword(query, waterLevelKeywords)

\* mutant: the closing attempts read rainfall before water-level
FallbackPlan_RainfallFirst(query) ==
    (IF isRainfallQuery(query) THEN <<"fb_rain_kw">> ELSE <<>>)
    \o (IF isDamQuery(query) THEN <<"fb_dam_kw">> ELSE <<>>)
    \o (IF isWaterLevelQuery(query) THEN <<"fb_water_kw">> ELSE <<>>)
    \o <<"fb_rain", "fb_water">>

\* the attempts of the branch searchResults.length === 0, in program order
FallbackPlan(query) ==
    (IF isRainfallQuery(query) THEN <<"fb_rain_kw">> ELSE <<>>)
    \o (IF isDamQuery(query) THEN <<"fb_dam_kw">> ELSE <<>>)
    \o (IF isWaterLevelQuery(query) THEN <<"fb_water_kw">> ELSE <<>>)
    \o <<"fb_water", "fb_rain">>

NextFallback(query, pc) ==
    LET plan == FallbackPlan(query)
        i == CHOOSE j \in 1..Len(plan) : plan[j] = pc
    IN  IF i = Len(plan) THEN "end" ELSE plan[i + 1]

FallbackPcs == {"fb_rain_kw", "fb_dam_kw", "fb_water_kw", "fb_water", "fb_rain"}
StationPcs == {"st_first", "st_second"}

\* mutant: every attempt loads the three snapshots up front
Needs_Eager(c) ==
    IF c.pc \in FallbackPcs \cup StationPcs THEN <<"dam", "waterlevel", "rainfall">>
    ELSE <<>>

\* the snapshots the attempt at c.pc awaits, in the order it asks for them
Needs(c) ==
    CASE c.pc \in {"fb_rain_kw", "fb_rain"} -> <<"rainfall">>
      [] c.pc = "fb_dam_kw" -> <<"dam", "waterlevel">>
      [] c.pc \in {"fb_water_kw", "fb_water"} -> <<"waterlevel">>
      [] c.pc = "st_first" ->
            (CASE Head(c.results).type = "dam" -> <<"dam", "waterlevel">>
               [] Head(c.results).type = "rainfall" -> <<"rainfall">>
               [] OTHER -> <<"waterlevel">>)
      [] c.pc = "st_second" ->
            (IF Head(c.results).type = "rainfall" THEN <<"waterlevel">>
             ELSE <<"rainfall">>)
      [] OTHER -> <<>>

\* getWaterSnapshot / getRainfallSnapshot / getDamSnapshots: the memo
Memo(c, kind) ==
    CASE kind = "waterlevel" -> c.waterSnapshot
      [] kind = "rainfall" -> c.rainfallSnapshot
      [] kind = "dam" -> c.damSnapshots

\* mutant: an empty snapshot list counts as not fetched
Missing_RefetchEmpty(c) ==
    SelectSeq(Needs(c), LAMBDA kind :
        \/ Memo(c, kind) = None
        \/ (kind # "dam" /\ Memo(c, kind).value = <<>>))

\* the snapshots of the attempt whose memo is still null (if (!snapshot))
Missing(c) == SelectSeq(Needs(c), LAMBDA kind : Memo(c, kind) = None)

\* the fetches issued when the fetch of `kind` is awaited: in the Promise.all
\* of the dam-keyword fallback both fetches are issued before either settles
Issued(c, kind) ==
    IF c.pc = "fb_dam_kw" THEN {Missing(c)[i] : i \in 1..Len(Missing(c))} ELSE {kind}

\* a snapshot fetch threw: the error reaches the catch block
FetchFailed(c, kind) ==
    [c EXCEPT !.pc = "done", !.threw = TRUE,
              !.response = HandleThrown(<<"upstream failure">>),
              !.fetched = [k \in Kinds |-> IF k \in Issued(c, kind) THEN @[k] + 1 ELSE @[k]]]

\* searchAndGetData is called: the keyword flags are computed and
\* stationManager.searchByName(query) is awaited
StartSearchAndGetData(p) ==
    /\ call.pc = "idle"
    /\ \E query \in SearchQueries :
        /\ Start(p, "searchAndGetData", query, "any")
        /\ call' = [IdleCall EXCEPT !.pc = "directory", !.query = query]
    /\ UNCHANGED varsPure

\* searchByName returns: the result is prioritized and the first attempt chosen
DirectorySearched(p) ==
    /\ proc[p].pc = "search" /\ proc[p].op = "searchAndGetData"
    /\ call.pc = "directory"
    /\ LET query == call.query
           searchResults == searchByName(stationCache, query, "any")
           prioritizedResults ==
               prioritizeSearchResults(searchResults, isRainfallQuery(query),
                                       isDamQuery(query), isWaterLevelQuery(query))
       IN  call' = [call EXCEPT
                      !.results = prioritizedResults,
                      !.pc = IF searchResults = <<>> THEN Head(FallbackPlan(query))
                             ELSE "st_first"]
    /\ proc' = [proc EXCEPT ![p] = IdleProc]
    /\ UNCHANGED <<stationCache, lastFetchTime, now, ncalls, hist, varsPure>>

FetchWaterLevelSnapshot ==
    /\ Missing(call) # <<>> /\ Head(Missing(call)) = "waterlevel"
    /\ \E outcome \in {Throw} \cup {[feed |-> f] : f \in WaterFeeds} :
        call' = IF Threw(outcome) THEN FetchFailed(call, "waterlevel")
                ELSE [call EXCEPT
                        !.waterSnapshot = Some(fetchWaterLevelSnapshot(outcome.feed)),
                        !.fetched["waterlevel"] = @ + 1]
    /\ UNCHANGED <<varsPure, varsSM>>

FetchRainfallSnapshot ==
    /\ Missing(call) # <<>> /\ Head(Missing(call)) = "rainfall"
    /\ \E outcome \in {Throw} \cup {[feed |-> f] : f \in RainfallFeeds} :
        call' = IF Threw(outcome) THEN FetchFailed(call, "rainfall")
                ELSE [call EXCEPT
                        !.rainfallSnapshot = Some(fetchRainfallSnapshot(outcome.feed)),
                        !.fetched["rainfall"] = @ + 1]
    /\ UNCHANGED <<varsPure, varsSM>>

FetchDamSnapshots ==
    /\ Missing(call) # <<>> /\ Head(Missing(call)) = "dam"
    /\ \E outcome \in {Throw} \cup {[feed |-> f] : f \in DamFeeds} :
        call' = IF Threw(outcome) THEN FetchFailed(call, "dam")
                ELSE [call EXCEPT
                        !.damSnapshots = Some(fetchDamSnapshots(outcome.feed)),
                        !.fetched["dam"] = @ + 1]
    /\ UNCHANGED <<varsPure, varsSM>>

\* a resolver returned a record: the call returns the response
Conclude(c, domains, response) ==
    [c EXCEPT !.pc = "done", !.attempts = @ \o domains, !.resolved = TRUE,
              !.response = response]

\* the dam response: in quick mode it is complete, otherwise buildDamNarrative
\* is awaited
ConcludeDam(c, domains, response) ==
    IF isQuickQuery(c.query)
    THEN Conclude(c, domains, [response EXCEPT !.answer = "quick"])
    ELSE [c EXCEPT !.pc = "narrative", !.attempts = @ \o domains, !.resolved = TRUE,
                   !.pending = response]

\* mutant: the second step of every station reads the water-level domain
AttemptDomain_WaterSecond(c) ==
    CASE c.pc \in {"fb_rain_kw", "fb_rain"} -> "rainfall"
      [] c.pc = "fb_dam_kw" -> "dam"
      [] c.pc \in {"fb_water_kw", "fb_water"} -> "waterlevel"
      [] c.pc = "st_first" -> Head(c.results).type
      [] c.pc = "st_second" -> "waterlevel"

\* the attempt at c.pc: its domain, the name and the explicit codes it passes
\* to collectCandidateCodes
AttemptDomain(c) ==
    CASE c.pc \in {"fb_rain_kw", "fb_rain"} -> "rainfall"
      [] c.pc = "fb_dam_kw" -> "dam"
      [] c.pc \in {"fb_water_kw", "fb_water"} -> "waterlevel"
      [] c.pc = "st_first" -> Head(c.results).type
      [] c.pc = "st_second" ->
            (IF Head(c.results).type = "rainfall" THEN "waterlevel" ELSE "rainfall")

AttemptName(c) == IF c.pc \in FallbackPcs THEN c.query ELSE Head(c.results).name

AttemptCodes(c) ==
    IF c.pc = "st_first" THEN <<Head(c.results).code, c.query>> ELSE <<c.query>>

\* the domains an attempt reads, in order
AttemptDomains(c) ==
    IF AttemptDomain(c) = "dam" THEN <<"dam", "waterlevel">> ELSE <<AttemptDomain(c)>>

ResolveCodes(c, kind, codes) ==
    CASE kind = "dam" -> resolveDamRecord(c.damSnapshots.value, codes)
      [] kind = "rainfall" -> resolveRainfallRecord(c.rainfallSnapshot.value, codes)
      [] kind = "waterlevel" -> resolveWaterLevelRecord(c.waterSnapshot.value, codes)

Resolve(c, kind, name, additional) ==
    ResolveCodes(c, kind, collectCandidateCodes(name, kind, additional))

\* no record: the next attempt, the next station, or the error that names
\* the query
Advance(c) ==
    LET domains == AttemptDomains(c)
    IN  IF c.pc \in FallbackPcs
        THEN IF NextFallback(c.query, c.pc) = "end"
             THEN [c EXCEPT !.pc = "done", !.attempts = @ \o domains,
                      !.response = createErrorResponse(NotFoundMessage(c.query))]
             ELSE [c EXCEPT !.pc = NextFallback(c.query, c.pc), !.attempts = @ \o domains]
        ELSE IF c.pc = "st_first" /\ Head(c.results).type # "dam"
             THEN [c EXCEPT !.pc = "st_second", !.attempts = @ \o domains]
             ELSE IF Tail(c.results) = <<>>
                  THEN [c EXCEPT !.pc = "done", !.attempts = @ \o domains,
                           !.response = createErrorResponse(NoDataMessage(c.query))]
                  ELSE [c EXCEPT !.pc = "st_first", !.attempts = @ \o domains,
                           !.results = Tail(@)]

\* what the attempt at c.pc does with the resolver's result, and for a dam
\* with the result of the water-level resolver as well; lastCode is the code
\* the dam response falls back to ('' on the fallback branch, station.code
\* in the loop)
Outcome(c, result, waterResult, lastCode) ==
    CASE AttemptDomain(c) = "dam" ->
            IF result # None \/ waterResult # None
            THEN ConcludeDam(c, AttemptDomains(c),
                    createIntegratedDamResponse(AttemptName(c),
                        IF result # None THEN result.code
                        ELSE IF c.pc \in FallbackPcs /\ waterResult # None
                             THEN waterResult.code ELSE lastCode,
                        IF waterResult # None THEN waterResult.code
                        ELSE IF result # None THEN result.code ELSE lastCode,
                        IF result # None THEN result.data ELSE None,
                        IF waterResult # None THEN waterResult.data ELSE None,
                        "pending"))
            ELSE Advance(c)
      [] AttemptDomain(c) = "rainfall" ->
            IF result # None
            THEN Conclude(c, AttemptDomains(c),
                    createIntegratedRainfallResponse(AttemptName(c), result.code,
                                                     result.data))
            ELSE Advance(c)
      [] AttemptDomain(c) = "waterlevel" ->
            IF result # None
            THEN Conclude(c, AttemptDomains(c),
                    createIntegratedResponse(AttemptName(c), result.code, result.data))
            ELSE Advance(c)

\* the resolvers of the attempt at c.pc are run and its outcome is taken
Attempt(c, lastCode) ==
    Outcome(c,
            Resolve(c, AttemptDomain(c), AttemptName(c), AttemptCodes(c)),
            IF AttemptDomain(c) = "dam"
            THEN ResolveCodes(c, "waterlevel",
                    collectCandidateCodes(AttemptName(c), "waterlevel", <<c.query>>))
            ELSE None,
            lastCode)

\* one attempt of the branch searchResults.length === 0
FallbackAttempt ==
    /\ call.pc \in FallbackPcs /\ Missing(call) = <<>>
    /\ call' = Attempt(call, <<>>)
    /\ UNCHANGED <<varsPure, varsSM>>

\* one attempt of the loop over the prioritized stations
StationAttempt ==
    /\ call.pc \in StationPcs /\ Missing(call) = <<>>
    /\ call' = Attempt(call, Head(call.results).code)
    /\ UNCHANGED <<varsPure, varsSM>>

\* buildDamNarrative: the three time-series fetches settle; when one throws
\* the error is caught there and the snapshot text is the answer
BuildDamNarrative ==
    /\ call.pc = "narrative"
    /\ \E answer \in {"analysis", "snapshot"} :
        call' = [call EXCEPT !.pc = "done", !.pending = None,
                             !.response = [call.pending EXCEPT !.answer = answer]]
    /\ UNCHANGED <<varsPure, varsSM>>

\* the caller has consumed the response
ReturnResponse ==
    /\ call.pc = "done"
    /\ call' = IdleCall
    /\ UNCHANGED <<varsPure, varsSM>>

InitSearch ==
    /\ op = "none" /\ inp = None /\ out = None
    /\ stationCache = <<>>
    /\ lastFetchTime = 0
    /\ now = 1
    /\ proc = [p \in Procs |-> IdleProc]
    /\ ncalls = 0
    /\ hist = NoRefresh
    /\ call = IdleCall

NextSearch ==
    \/ \E p \in SeqProcs : StartSearchAndGetData(p)
    \/ \E p \in SeqProcs : Respond(p)
    \/ \E p \in SeqProcs : DirectorySearched(p)
    \/ FetchWaterLevelSnapshot
    \/ FetchRainfallSnapshot
    \/ FetchDamSnapshots
    \/ FallbackAttempt
    \/ StationAttempt
    \/ BuildDamNarrative
    \/ ReturnResponse

SpecSearch == InitSearch /\ [][NextSearch]_vars

(***************************************************************************)
(* Claims about the directory cache (SpecSM)                               *)
(***************************************************************************)
Lookups == {"searchByName", "getByCode"}

\* every station of a list is found by a search for its own name in its kind
Searchable(cache, kind) ==
    \A i \in 1..Len(CacheGet(cache, kind)) :
        LET st == CacheGet(cache, kind)[i]
            found == searchByName(cache, st.name, kind)
        IN  \E j \in 1..Len(found) : found[j].code = st.code

\* C2 as stated, the window counted from the moment the refresh completed: a
\* lookup made less than cacheDuration after the completion of the last
\* refresh issues no getObservatories call
C2_AsStated ==
    \A p \in Procs :
        (/\ proc[p].op \in Lookups
         /\ proc[p].prev.done # 0
         /\ proc[p].localNow - proc[p].prev.done < CacheDuration)
        => proc[p].fetches = 0

\* C2 (amended): once a refresh has completed, a searchByName or getByCode
\* call that does not overlap another call and is made less than
\* cacheDuration after the instant that refresh STARTED (the Date.now() it
\* read on entry) issues no getObservatories call
C2_NoFetchWithinTtl ==
    \A p \in Procs :
        (/\ proc[p].op \in Lookups
         /\ proc[p].prev.done # 0
         /\ proc[p].localNow - proc[p].prev.started < CacheDuration)
        => proc[p].fetches = 0

\* a lookup has returned that was made one tick after the start of a refresh
\* that took no time, and fetched nothing
C2_Witness ==
    \E p \in Procs :
        /\ proc[p].op \in Lookups /\ proc[p].pc = "done"
        /\ proc[p].prev.done # 0
        /\ proc[p].localNow = proc[p].prev.started + 1
        /\ proc[p].fetches = 0

\* C3: in a refresh in which getObservatories threw for some kind, all three
\* kinds were fetched, the entry of each failing kind is what it was before
\* the refresh (the same list, or absent), and each kind that succeeded has
\* an entry all of whose stations are found by searchByName
C3_PartialFailureIsolation ==
    \A p \in Procs :
        (proc[p].pc \in {"search", "done"} /\ proc[p].threw # {})
        => /\ proc[p].fetches = Len(RefreshOrder)
           /\ \A kind \in proc[p].threw :
                /\ CacheHas(stationCache, kind) = CacheHas(proc[p].before, kind)
                /\ CacheGet(stationCache, kind) = CacheGet(proc[p].before, kind)
           /\ \A kind \in Kinds \ proc[p].threw :
                /\ CacheHas(stationCache, kind)
                /\ Searchable(stationCache, kind)

\* a refresh has ended in which the dam listing threw while the cache held a
\* dam list from before, and the two other kinds were stored
C3_Witness ==
    \E p \in Procs :
        /\ proc[p].pc = "search"
        /\ proc[p].threw = {"dam"}
        /\ CacheHas(proc[p].before, "dam")
        /\ CacheGet(stationCache, "dam") # <<>>
        /\ CacheGet(stationCache, "waterlevel") # <<>>

(***************************************************************************)
(* Claims about searchAndGetData (SpecSearch)                              *)
(***************************************************************************)
Finished == call.pc = "done"

\* the snapshot was fetched and the first record coded `code` has a value
\* that parses
ValidReading(memo, code, Value(_)) ==
    /\ memo # None
    /\ RecordOf(memo.value, code) # 0
    /\ Value(memo.value[RecordOf(memo.value, code)]) # NaN

ValidDamReading(memo, code) ==
    /\ memo # None
    /\ RecordOf(memo.value.realtime, code) # 0
    /\ ValueSWL(memo.value.realtime[RecordOf(memo.value.realtime, code)]) # NaN

\* the directory search returned nothing
NoDirectoryMatch == call.results = <<>>

\* neither the query nor the query without whitespace hits the alias table
NoAliasEntry(query) ==
    \A kind \in Kinds :
        /\ findStationCode(query, kind) = Null
        /\ findStationCode(StripWs(query), kind) = Null

\* C1: searchAndGetData never rejects: whatever the listing, snapshot and
\* time-series fetches do, the call ends with a response of status success or
\* error, and a call in which no resolver returned a record ends with status
\* error and a non-empty message
C1_NeverRejects ==
    /\ Finished => call.response # None
    /\ call.response # None =>
        /\ call.response.status \in {"success", "error"}
        /\ ~call.resolved =>
            (call.response.status = "error" /\ call.response.message # <<>>)

\* every listing fetch threw and then a snapshot fetch threw: the call ended
\* with the error response of the catch block
C1_Witness ==
    /\ Finished /\ call.threw /\ stationCache = <<>>
    /\ call.response.status = "error"
    /\ call.response.message = <<"error while fetching: ", "upstream failure">>

\* C8 as stated: no directory match, no alias entry, no fetch failure: the
\* response is the error that contains the query
C8_AsStated ==
    (Finished /\ NoDirectoryMatch /\ NoAliasEntry(call.query) /\ ~call.threw)
    => /\ call.response.status = "error"
       /\ Includes(call.response.message, call.query)

\* no record of a snapshot fetched in this call has the trimmed query as code
QueryIsNoCode ==
    /\ call.waterSnapshot # None => RecordOf(call.waterSnapshot.value, call.query) = 0
    /\ call.rainfallSnapshot # None
          => RecordOf(call.rainfallSnapshot.value, call.query) = 0
    /\ call.damSnapshots # None
          => RecordOf(call.damSnapshots.value.realtime, call.query) = 0

\* C8 (amended): when the query matches no station of the directory and no
\* alias-table entry, the trimmed query is not itself the station code of a
\* record of a fetched snapshot, and no snapshot fetch fails, the response
\* has status error and its message contains the query verbatim
C8_UnknownQueryError ==
    (Finished /\ NoDirectoryMatch /\ NoAliasEntry(call.query) /\ ~call.threw
        /\ QueryIsNoCode)
    => /\ call.response.status = "error"
       /\ Includes(call.response.message, call.query)

\* an unknown name went through the water-level and the rainfall attempt and
\* got the error that names it
C8_Witness ==
    /\ Finished /\ NoDirectoryMatch /\ NoAliasEntry(call.query) /\ ~call.threw
    /\ QueryIsNoCode
    /\ call.query = <<"z">>
    /\ call.attempts = <<"waterlevel", "rainfall">>
    /\ call.response.status = "error"
    /\ Includes(call.response.message, call.query)

\* C9: a query with a rainfall keyword for which the directory returns one
\* rainfall station whose record in the rainfall snapshot has a valid reading:
\* the rainfall domain is attempted first, the response is a success of type
\* rainfall, and fetchDamSnapshots is never called
C9_RainfallFirstNoDamFetch ==
    (/\ Finished
     /\ isRainfallQuery(call.query)
     /\ Len(call.results) = 1 /\ Head(call.results).type = "rainfall"
     /\ ValidReading(call.rainfallSnapshot, Head(call.results).code, ValueRF))
    => /\ call.response.status = "success"
       /\ call.response.type = "rainfall"
       /\ call.attempts # <<>> /\ Head(call.attempts) = "rainfall"
       /\ call.fetched["dam"] = 0

C9_Witness ==
    /\ Finished
    /\ call.query = <<"c", "R">>
    /\ Len(call.results) = 1 /\ Head(call.results).type = "rainfall"
    /\ ValidReading(call.rainfallSnapshot, Head(call.results).code, ValueRF)
    /\ call.response.type = "rainfall" /\ call.response.primary = Code50
    /\ call.fetched = [dam |-> 0, waterlevel |-> 0, rainfall |-> 1]

\* the water-level stations the directory holds under the name of the dam
PairedInDirectory(dam) ==
    {st \in {CacheGet(stationCache, "waterlevel")[i] :
                i \in 1..Len(CacheGet(stationCache, "waterlevel"))} :
        st.name = dam.name}

\* C10 as stated: the query is the name of a dam the directory holds with
\* code D1, the directory holds a water-level station of that name with code
\* W1, the dam snapshot has a valid reading for D1 and the water-level
\* snapshot for W1: success with primary code D1 and water-level code W1
C10_AsStated ==
    \A w \in (IF Finished /\ call.results # <<>>
              THEN PairedInDirectory(Head(call.results)) ELSE {}) :
        (/\ Head(call.results).type = "dam"
         /\ call.query = Head(call.results).name
         /\ ValidDamReading(call.damSnapshots, Head(call.results).code)
         /\ ValidReading(call.waterSnapshot, w.code, ValueWL))
        => /\ call.response.status = "success"
           /\ call.response.primary = Trim(Head(call.results).code)
           /\ call.response.water = Trim(w.code)

\* C10 (amended): the query is the name of a dam the directory holds with
\* code D1, W1 is the water-level code the static alias table gives for that
\* name, no water-level record is coded with the query text itself, the dam
\* snapshot has a valid reading for D1 and the water-level snapshot for W1:
\* success with primary code D1 and water-level code W1
C10_DamWithAliasWaterLevel ==
    (/\ Finished /\ call.results # <<>>
     /\ Head(call.results).type = "dam"
     /\ call.query = Head(call.results).name
     /\ findStationCode(call.query, "waterlevel") # Null
     /\ ValidDamReading(call.damSnapshots, Head(call.results).code)
     /\ ValidReading(call.waterSnapshot, findStationCode(call.query, "waterlevel"),
                     ValueWL)
     /\ RecordOf(call.waterSnapshot.value, call.query) = 0)
    => /\ call.response.status = "success"
       /\ call.response.primary = Trim(Head(call.results).code)
       /\ call.response.water = Trim(findStationCode(call.query, "waterlevel"))

C10_Witness ==
    /\ Finished /\ call.query = NameAD
    /\ call.results # <<>> /\ Head(call.results).code = Code31
    /\ ValidDamReading(call.damSnapshots, Code31)
    /\ ValidReading(call.waterSnapshot, Code39, ValueWL)
    /\ call.response.status = "success"
    /\ call.response.primary = Code31 /\ call.response.water = Code39


(***************************************************************************)
(* StationManager.searchByName, the two copies of the repository:          *)
(* src/lib/station-manager.ts (above: findMatches, SearchKinds,            *)
(* searchByName) and the copy with normalised matching, which walks every  *)
(* kind and merges what it finds.                                          *)
(***************************************************************************)
\* SEARCH_STOPWORDS, reduced to the keyword characters of this model:
\* rainfall ("R"), water level ("W"), dam ("D")
SEARCH_STOPWORDS == <<"R", "W", "D">>

\* String.prototype.toLowerCase on the alphabet of this model ("A" is the
\* one cased letter; the keyword characters stand for Hangul and have no case)
ToLowerCase(s) == [i \in 1..Len(s) |-> IF s[i] = "A" THEN "a" ELSE s[i]]

\* normalizeSearchText: whitespace, brackets and hyphens removed, lower case,
\* then every stopword removed, one after the other
normalizeSearchText(value) ==
    LET RECURSIVE Strip(_, _)
        Strip(s, words) ==
            IF words = <<>> THEN s
            ELSE Strip(SelectSeq(s, LAMBDA c : c # Head(words)), Tail(words))
    IN  IF value = Null \/ value = <<>> THEN <<>>
        ELSE Strip(ToLowerCase(SelectSeq(StripWs(value),
                        LAMBDA c : c \notin {"(", ")", "[", "]", "{", "}", "-"})),
                   SEARCH_STOPWORDS)

partialMatch(source, rawQuery, normalizedQuery) ==
    LET normalizedSource == normalizeSearchText(source)
        hasRaw == Len(rawQuery) > 0
        hasNormalized == Len(normalizedQuery) > 0
    IN  IF source = Null \/ source = <<>> THEN FALSE
        ELSE IF ~hasRaw /\ ~hasNormalized THEN FALSE
        ELSE \/ (hasRaw /\ Includes(source, rawQuery))
             \/ (hasRaw /\ Includes(rawQuery, source))
             \/ (hasNormalized /\ Includes(normalizedSource, normalizedQuery))
             \/ (hasNormalized /\ Includes(normalizedQuery, normalizedSource))

\* the loop body of the merging copy for one kind: the exact matches, then
\* the partial matches whose code is not among the exact ones
KindMatches(stations, trimmedQuery, normalizedQuery) ==
    LET exactMatches ==
            SelectSeq(stations, LAMBDA st :
                \/ st.name = trimmedQuery
                \/ normalizeSearchText(st.name) = normalizedQuery)
        exactMatchCodes == {exactMatches[i].code : i \in 1..Len(exactMatches)}
        partialMatches ==
            SelectSeq(stations, LAMBDA st :
                /\ st.code \notin exactMatchCodes
                /\ \/ partialMatch(st.name, trimmedQuery, normalizedQuery)
                   \/ partialMatch(st.location, trimmedQuery, normalizedQuery)
                   \/ partialMatch(st.river_name, trimmedQuery, normalizedQuery))
    IN  exactMatches \o partialMatches

\* searchByName of the merging copy, after its await
searchByNameMerged(cache, query, type) ==
    LET trimmedQuery == Trim(query)
        normalizedQuery == normalizeSearchText(trimmedQuery)
        RECURSIVE Walk(_)
        Walk(searchTypes) ==
            IF searchTypes = <<>> THEN <<>>
            ELSE KindMatches(CacheGet(cache, Head(searchTypes)),
                             trimmedQuery, normalizedQuery)
                 \o Walk(Tail(searchTypes))
    IN  DedupeByCode(Walk(IF type = "any" THEN <<"waterlevel", "rainfall", "dam">>
                                          ELSE <<type>>))

\* the caches a refresh can leave behind, starting from the empty cache
LookupCaches ==
    {StoreOutcome(StoreOutcome(StoreOutcome(<<>>, "waterlevel", w), "rainfall", r), "dam", d) :
        w \in ListingOutcomes("waterlevel"),
        r \in ListingOutcomes("rainfall"),
        d \in ListingOutcomes("dam")}

LookupQueries == {NameAD, NameA, NameB, NameC, <<"A", "D">>, <<"a", "D", " ">>, <<"z">>}

LookupInputs ==
    [fn : {"searchByName", "searchByNameMerged"},
     cache : LookupCaches,
     query : LookupQueries,
     type : Kinds \cup {"any"}]

InitLookup ==
    /\ op = "none"
    /\ inp \in LookupInputs
    /\ out = None
    /\ stationCache = <<>>
    /\ lastFetchTime = 0
    /\ now = 1
    /\ proc = <<>>
    /\ ncalls = 0
    /\ hist = <<>>
    /\ call = <<>>

DoSearchByName ==
    /\ op = "none" /\ inp.fn = "searchByName"
    /\ op' = inp.fn
    /\ out' = searchByName(inp.cache, inp.query, inp.type)
    /\ UNCHANGED <<inp, varsSM, varsSearch>>

DoSearchByNameMerged ==
    /\ op = "none" /\ inp.fn = "searchByNameMerged"
    /\ op' = inp.fn
    /\ out' = searchByNameMerged(inp.cache, inp.query, inp.type)
    /\ UNCHANGED <<inp, varsSM, varsSearch>>

NextLookup ==
    \/ DoSearchByName
    \/ DoSearchByNameMerged

SpecLookup == InitLookup /\ [][NextLookup]_vars

(***************************************************************************)
(* Claims about searchByName (SpecLookup)                                  *)
(***************************************************************************)
\* the search of the copy that ran, restricted to one kind
LookupOfKind(kind) ==
    IF op = "searchByName" THEN searchByName(inp.cache, inp.query, kind)
    ELSE searchByNameMerged(inp.cache, inp.query, kind)

\* the order in which the copy that ran walks the kinds
LookupOrder ==
    IF op = "searchByName" THEN SearchOrder ELSE <<"waterlevel", "rainfall", "dam">>

\* C11 (as stated): a searchByName call without a kind filter returns
\* records of one kind only, the first kind of the copy's fixed order that
\* has any match for the query; no record of a later kind comes with them.
C11_AsStated ==
    (op # "none" /\ inp.type = "any") =>
        \A i \in 1..Len(out) :
            /\ out[i].type = out[1].type
            /\ \A k \in 1..Len(LookupOrder) :
                  LookupOrder[k] = out[i].type =>
                      \A j \in 1..(k - 1) : LookupOfKind(LookupOrder[j]) = <<>>

\* C12 (as stated): when a cached station of the kind searched is named
\* exactly as the query, the result for that kind is the exact matches and
\* nothing else.
C12_AsStated ==
    (op # "none" /\ inp.type \in Kinds
        /\ \E i \in 1..Len(CacheGet(inp.cache, inp.type)) :
              CacheGet(inp.cache, inp.type)[i].name = inp.query) =>
        \A i \in 1..Len(out) : out[i].name = inp.query


(***************************************************************************)
(* Claims about the contents of the directory cache (SpecSM)               *)
(***************************************************************************)
\* C13: in every reachable state each kind has at most one cache entry, and
\* every record of an entry has a non-empty code, a non-empty name and the
\* type of the kind it is stored under.
C13_CacheEntriesVetted ==
    /\ \A i, j \in 1..Len(stationCache) :
          stationCache[i].kind = stationCache[j].kind => i = j
    /\ \A i \in 1..Len(stationCache) :
          /\ stationCache[i].kind \in Kinds
          /\ \A j \in 1..Len(stationCache[i].list) :
                LET st == stationCache[i].list[j]
                IN  /\ st.code \notin {<<>>, Null}
                    /\ st.name \notin {<<>>, Null}
                    /\ st.type = stationCache[i].kind

\* a forced refresh in which one listing failed has ended, and the dam entry
\* is the listing that came with a nameless record, without that record
C13_Witness ==
    /\ proc[1].op = "refreshCache" /\ proc[1].pc = "done"
    /\ proc[1].threw # {} /\ "dam" \notin proc[1].threw
    /\ CacheHas(stationCache, "dam")
    /\ Len(CacheGet(stationCache, "dam")) = 1
    /\ ~CacheHas(stationCache, "rainfall")


(***************************************************************************)
(* StationManager under overlapping calls: a second caller may start,      *)
(* and run up to its own first await, while the first is suspended at an   *)
(* await of fetchAllStations.                                              *)
(***************************************************************************)
\* the lookups of the overlapping callers: one name, one code
OverlapSearchByName(p) ==
    Start(p, "searchByName", NameAD, "any") /\ UNCHANGED <<varsPure, varsSearch>>

OverlapGetByCode(p) ==
    Start(p, "getByCode", Code31, "any") /\ UNCHANGED <<varsPure, varsSearch>>

NextOverlap ==
    \/ \E p \in Procs : OverlapSearchByName(p)
    \/ \E p \in Procs : OverlapGetByCode(p)
    \/ \E p \in Procs : Respond(p)
    \/ \E p \in Procs : Finish(p)
    \/ \E p \in Procs : Return(p)
    \/ Tick

SpecOverlap == InitSM /\ [][NextOverlap]_vars

\* C14 (as stated): overlapping lookups share one refresh, so at no time do
\* two callers each have a getObservatories request of their own in flight.
C14_AsStated ==
    \A p, q \in Procs :
        (/\ proc[p].pc \in {AwaitPc(k) : k \in Kinds}
         /\ proc[q].pc \in {AwaitPc(k) : k \in Kinds}) => p = q


(***************************************************************************)
(* BaseAPI.request / BaseAPI.retry                                         *)
(***************************************************************************)
MaxAttempts == 6

DEFAULT_RETRY == [attempts |-> 3, initialDelayMs |-> 200, maxDelayMs |-> 2000]

\* what fn can throw: the wrapper does not look at the error
ErrorKinds == {"network", "parse"}

\* request: options.retryAttempts ?? config.retryAttempts ?? DEFAULT_RETRY.attempts
retryAttempts(options, config) ==
    IF options # None THEN options.value
    ELSE IF config # None THEN config.value
    ELSE DEFAULT_RETRY.attempts

\* mutant: the delay doubles without a cap
NextDelay_Uncapped(delayMs) == delayMs * 2

\* Math.min(delayMs * 2, DEFAULT_RETRY.maxDelayMs)
NextDelay(delayMs) ==
    IF delayMs * 2 < DEFAULT_RETRY.maxDelayMs THEN delayMs * 2
    ELSE DEFAULT_RETRY.maxDelayMs

\* the frame of a retry call: attempt is the loop counter, calls the number
\* of times fn was called, errors what those calls threw, waits the delays
\* awaited so far
RetryFrame(attempts) ==
    [pc |-> "entry", attempts |-> attempts, attempt |-> 1,
     delayMs |-> DEFAULT_RETRY.initialDelayMs, calls |-> 0,
     errors |-> <<>>, waits |-> <<>>, result |-> None]

\* the loop test and the call of fn, up to the await; with no attempt left
\* at entry the loop is skipped and lastError (undefined) is thrown
EnterLoop(c) ==
    IF c.attempt <= c.attempts
    THEN [c EXCEPT !.pc = "await_fn", !.calls = @ + 1]
    ELSE [c EXCEPT !.pc = "thrown", !.result = None]

RetryStart ==
    /\ call.pc = "entry"
    /\ call' = EnterLoop(call)
    /\ UNCHANGED <<varsPure, varsSM>>

\* return await fn()
FnResolves ==
    /\ call.pc = "await_fn"
    /\ call' = [call EXCEPT !.pc = "returned",
                            !.result = Some([payload |-> call.attempt])]
    /\ UNCHANGED <<varsPure, varsSM>>

\* fn throws: the error is kept; after the last attempt the loop breaks and
\* the error is thrown, otherwise the call waits delayMs
FnRejects ==
    /\ call.pc = "await_fn"
    /\ \E kind \in ErrorKinds :
        LET error == [kind |-> kind, attempt |-> call.attempt]
            c == [call EXCEPT !.errors = Append(@, error)]
        IN  call' = IF call.attempt >= call.attempts
                    THEN [c EXCEPT !.pc = "thrown", !.result = Some(error)]
                    ELSE [c EXCEPT !.pc = "delay", !.waits = Append(@, call.delayMs)]
    /\ UNCHANGED <<varsPure, varsSM>>

\* the delay has elapsed: delayMs doubles up to the cap, the loop goes on
DelayElapsed ==
    /\ call.pc = "delay"
    /\ call' = EnterLoop([call EXCEPT !.delayMs = NextDelay(@), !.attempt = @ + 1])
    /\ UNCHANGED <<varsPure, varsSM>>

InitRetry ==
    /\ op = "none" /\ inp = None /\ out = None
    /\ stationCache = <<>>
    /\ lastFetchTime = 0
    /\ now = 1
    /\ proc = <<>>
    /\ ncalls = 0
    /\ hist = <<>>
    /\ \E options, config \in {None} \cup {Some(n) : n \in 0..MaxAttempts} :
          call = RetryFrame(retryAttempts(options, config))

NextRetry ==
    \/ RetryStart
    \/ FnResolves
    \/ FnRejects
    \/ DelayElapsed

SpecRetry == InitRetry /\ [][NextRetry]_vars

(***************************************************************************)
(* Claims about BaseAPI.retry (SpecRetry)                                  *)
(***************************************************************************)
RECURSIVE Backoff(_)
Backoff(k) ==
    IF k = 1 THEN 200
    ELSE IF 2 * Backoff(k - 1) > 2000 THEN 2000 ELSE 2 * Backoff(k - 1)

\* C15: for attempts >= 1, fn is called at most attempts times; the call
\* returns the value of the first call of fn that succeeds; every thrown
\* error, of whatever kind, is followed by a retry while attempts remain;
\* the wait before retry k is 200 ms doubled k-1 times and capped at
\* 2000 ms; nothing is awaited after the last failure, and the error thrown
\* is that of the last attempt.
C15_RetryBackoff ==
    call.attempts >= 1 =>
        /\ call.calls <= call.attempts
        /\ \A k \in 1..Len(call.waits) : call.waits[k] = Backoff(k)
        /\ \A k \in 1..Len(call.errors) : call.errors[k].attempt = k
        /\ call.pc = "await_fn" =>
              Len(call.errors) = call.calls - 1 /\ Len(call.waits) = call.calls - 1
        /\ call.pc = "delay" =>
              /\ call.calls < call.attempts
              /\ Len(call.errors) = call.calls /\ Len(call.waits) = call.calls
        /\ call.pc = "returned" =>
              /\ Len(call.errors) = call.calls - 1
              /\ Len(call.waits) = call.calls - 1
              /\ call.result = Some([payload |-> call.calls])
        /\ call.pc = "thrown" =>
              /\ call.calls = call.attempts
              /\ Len(call.errors) = call.attempts
              /\ Len(call.waits) = call.attempts - 1
              /\ call.result = Some(call.errors[call.attempts])

\* the default three attempts have failed with errors of different kinds
C15_Witness ==
    /\ call.attempts = 3 /\ call.pc = "thrown"
    /\ call.waits = <<200, 400>>
    /\ call.errors[1].kind # call.errors[3].kind

\* the delay has reached the cap
C15_WitnessCap ==
    /\ call.pc = "returned" /\ call.calls = 6
    /\ call.waits = <<200, 400, 800, 1600, 2000>>


(***************************************************************************)
(* MCPHandler.handleRequest.  A missing property is "undefined"; names,    *)
(* ids and queries are opaque strings here.                                *)
(***************************************************************************)
Falsy(x) == x \in {"undefined", ""}

ErrorResponse(id, code, message) ==
    [jsonrpc |-> "2.0", id |-> id, error |-> [code |-> code, message |-> message]]

ResultResponse(id, result) == [jsonrpc |-> "2.0", id |-> id, result |-> result]

TextContent(text) == [content |-> <<[type |-> "text", text |-> text]>>]

\* mutant: the catch block of handleRequest lets the error through
InternalError_Propagate(id, message) == [rejected |-> message]

\* the catch block of handleRequest
InternalError(id, message) == ErrorResponse(id, -32603, <<"Internal error: ", message>>)

\* handleToolsCall up to its await: an error response, or the client call
\* that is awaited
handleToolsCall(id, params) ==
    IF params = None
    THEN ErrorResponse(id, -32602, "params missing")
    ELSE IF Falsy(params.name)
    THEN ErrorResponse(id, -32602, "name missing")
    ELSE IF params.name \in {"get_water_info", "get_realestate_info"}
    THEN IF params.arguments = None
         THEN ErrorResponse(id, -32602, "arguments missing")
         ELSE IF Falsy(params.arguments.query)
         THEN ErrorResponse(id, -32602, "query missing")
         ELSE [await |-> IF params.name = "get_water_info"
                         THEN "searchAndGetData" ELSE "getRealEstateInfo"]
    ELSE ErrorResponse(id, -32601, <<"Unknown tool: ", params.name>>)

\* handleRequest up to the await of handleToolsCall
handleRequest(request) ==
    CASE request.method = "initialize" ->
            ResultResponse(request.id, [protocolVersion |-> "2024-11-05"])
      [] request.method = "tools/list" ->
            ResultResponse(request.id,
                           [tools |-> <<"get_water_info", "get_realestate_info">>])
      [] request.method = "tools/call" -> handleToolsCall(request.id, request.params)
      [] OTHER -> ErrorResponse(request.id, -32601, <<"Unknown method: ", request.method>>)

\* formatIntegratedResponse / formatRealEstateResponse, as far as the
\* status decides the text
FormatResult(result) ==
    IF result.status = "error" THEN <<"error mark", result.answer>>
    ELSE <<"report", result.answer>>

\* handleToolsCall after its await
ToolResult(id, result) == ResultResponse(id, TextContent(FormatResult(result)))

McpRequests ==
    [method : {"initialize", "tools/list", "tools/call", "resources/list"},
     id : {"undefined", "id-1", "id-2"},
     params : {None} \cup
              [name : {"undefined", "", "get_water_info", "get_realestate_info", "get_weather"},
               arguments : {None} \cup [query : {"undefined", "", "aD"}]]]

\* what the client call can settle to
ClientResults == [status : {"success", "error"}, answer : {"text"}]

McpReceive ==
    /\ call.pc = "received"
    /\ LET r == handleRequest(call.request)
       IN  call' = IF "await" \in DOMAIN r
                   THEN [call EXCEPT !.pc = "await_client", !.awaits = r.await]
                   ELSE [call EXCEPT !.pc = "settled", !.response = r]
    /\ UNCHANGED <<varsPure, varsSM>>

McpClientResolves ==
    /\ call.pc = "await_client"
    /\ \E result \in ClientResults :
          call' = [call EXCEPT !.pc = "settled", !.client = result,
                               !.response = ToolResult(call.request.id, result)]
    /\ UNCHANGED <<varsPure, varsSM>>

McpClientRejects ==
    /\ call.pc = "await_client"
    /\ call' = [call EXCEPT !.pc = "settled", !.client = Throw,
                            !.response = InternalError(call.request.id, "client error")]
    /\ UNCHANGED <<varsPure, varsSM>>

InitMcp ==
    /\ op = "none" /\ inp = None /\ out = None
    /\ stationCache = <<>>
    /\ lastFetchTime = 0
    /\ now = 1
    /\ proc = <<>>
    /\ ncalls = 0
    /\ hist = <<>>
    /\ \E request \in McpRequests :
          call = [pc |-> "received", request |-> request, awaits |-> "none",
                  client |-> None, response |-> None]

NextMcp ==
    \/ McpReceive
    \/ McpClientResolves
    \/ McpClientRejects

SpecMcp == InitMcp /\ [][NextMcp]_vars

(***************************************************************************)
(* Claims about MCPHandler.handleRequest (SpecMcp)                         *)
(***************************************************************************)
KnownTools == {"get_water_info", "get_realestate_info"}

ErrorCode(response) ==
    IF "error" \in DOMAIN response THEN response.error.code ELSE 0

\* the parameter the handler finds missing, checking params, name,
\* arguments and query in that order, for a tools/call that names no
\* unknown tool
MissingParameter(request) ==
    \/ request.params = None
    \/ Falsy(request.params.name)
    \/ /\ request.params.name \in KnownTools
       /\ \/ request.params.arguments = None
          \/ Falsy(request.params.arguments.query)

\* C16: a settled handleRequest has produced a JSON-RPC 2.0 response with
\* the id of the request and exactly one of result and error; the error
\* code is -32601 for an unknown method or an unknown tool name, -32602 for
\* a tools/call whose params, name, arguments or query is missing, -32603
\* when the client threw; a get_water_info result of status 'error' comes
\* back as a result with one text content.
C16_JsonRpcResponses ==
    call.pc = "settled" =>
        LET r == call.response
            q == call.request
            known == {"initialize", "tools/list", "tools/call"}
        IN  /\ DOMAIN r \in {{"jsonrpc", "id", "result"}, {"jsonrpc", "id", "error"}}
            /\ r.jsonrpc = "2.0"
            /\ r.id = q.id
            /\ q.method \notin known => ErrorCode(r) = -32601
            /\ (q.method = "tools/call" /\ MissingParameter(q)) => ErrorCode(r) = -32602
            /\ (q.method = "tools/call" /\ q.params # None /\ ~Falsy(q.params.name)
                    /\ q.params.name \notin KnownTools) => ErrorCode(r) = -32601
            /\ call.client = Throw => ErrorCode(r) = -32603
            /\ (call.awaits = "searchAndGetData" /\ call.client # Throw
                    /\ call.client # None /\ call.client.status = "error") =>
                  /\ "result" \in DOMAIN r
                  /\ Len(r.result.content) = 1
                  /\ r.result.content[1].type = "text"

\* the client threw while get_water_info was being served
C16_Witness ==
    /\ call.pc = "settled" /\ call.awaits = "searchAndGetData"
    /\ call.client = Throw
    /\ call.response.error.code = -32603


(***************************************************************************)
(* Claims about the snapshot fetches of searchAndGetData (SpecSearch)      *)
(***************************************************************************)
\* C17 (as stated): on the fallback path a rainfall snapshot fetch that
\* throws takes away the rainfall candidates only, so a call in which it
\* threw has still tried the water-level domain.
C17_AsStated ==
    (/\ Finished /\ NoDirectoryMatch
     /\ call.fetched["rainfall"] > 0 /\ call.rainfallSnapshot = None)
    => call.fetched["waterlevel"] > 0

\* what the directory search of the call in progress returned
DirectoryResults == searchByName(stationCache, call.query, "any")

\* C18: in every state of a call each snapshot fetcher has been invoked at
\* most once; none is invoked before the directory search has returned, and
\* the dam fetcher only for a dam station or, without any station, for a
\* query with the dam keyword.
C18_LazyAtMostOnce ==
    /\ \A kind \in Kinds : call.fetched[kind] <= 1
    /\ call.pc \in {"idle", "directory"} => \A kind \in Kinds : call.fetched[kind] = 0
    /\ call.fetched["dam"] > 0 =>
          IF DirectoryResults = <<>> THEN isDamQuery(call.query)
          ELSE DirectoryResults[1].type = "dam"

\* the water-level snapshot came back empty and two attempts have read it
C18_Witness ==
    /\ Finished
    /\ call.waterSnapshot = Some(<<>>)
    /\ Len(SelectSeq(call.attempts, LAMBDA d : d = "waterlevel")) = 2
    /\ call.fetched["waterlevel"] = 1


(***************************************************************************)
(* The upstream requests of a snapshot fetcher: FloodControlAPI.requestXml *)
(* under fetchWaterLevelSnapshot, fetchRainfallSnapshot, fetchDamSnapshots *)
(***************************************************************************)
MaxRequests == 3

\* the resources each fetcher requests (fetchDamSnapshots: both at once)
Endpoints ==
    [waterlevel |-> {"/waterlevel/list/10M.xml"},
     rainfall |-> {"/rainfall/list/10M.xml"},
     dam |-> {"/dam/list/10M.xml", "/dam/info.xml"}]

\* how the upstream answers the n-th request for a resource: a payload, a
\* transport error, or a body that does not parse
UpstreamPlans == [1..MaxRequests -> {"ok", "transport error", "parse error"}]

\* requestXml: one fetch; a failed response or parse is thrown to the caller
requestXml(plan, n) ==
    IF plan[n] = "ok" THEN [payload |-> n] ELSE [throw |-> TRUE, error |-> plan[n]]

\* the fetcher is called and awaits its requests
FetcherCalled ==
    /\ call.pc = "idle"
    /\ call' = [call EXCEPT
                  !.pc = "await",
                  !.pending = Endpoints[call.fetcher],
                  !.requests = [e \in Endpoints[call.fetcher] |-> 1]]
    /\ UNCHANGED <<varsPure, varsSM>>

\* a request settles: with a payload the fetcher goes on waiting for the
\* other one, or returns the snapshot; with an error the await throws and
\* the fetcher's caller gets the error
RequestSettles ==
    /\ call.pc = "await"
    /\ \E e \in call.pending :
        LET r == requestXml(call.plan, call.requests[e])
        IN  call' = IF Threw(r)
                    THEN [call EXCEPT !.pc = "thrown", !.pending = {}, !.error = r.error]
                    ELSE [call EXCEPT
                            !.pc = IF call.pending = {e} THEN "returned" ELSE "await",
                            !.pending = @ \ {e}]
    /\ UNCHANGED <<varsPure, varsSM>>

InitFetch ==
    /\ op = "none" /\ inp = None /\ out = None
    /\ stationCache = <<>>
    /\ lastFetchTime = 0
    /\ now = 1
    /\ proc = <<>>
    /\ ncalls = 0
    /\ hist = <<>>
    /\ \E fetcher \in Kinds, plan \in UpstreamPlans :
          call = [pc |-> "idle", fetcher |-> fetcher, plan |-> plan,
                  pending |-> {}, requests |-> <<>>, error |-> "none"]

NextFetch ==
    \/ FetcherCalled
    \/ RequestSettles

SpecFetch == InitFetch /\ [][NextFetch]_vars

\* C19 (as stated): an error of the upstream request reaches the snapshot
\* fetcher's caller only after three requests have failed; when the first
\* request fails and the second would succeed, the fetch does not fail.
C19_AsStated ==
    call.pc = "thrown" =>
        /\ \E e \in DOMAIN call.requests : call.requests[e] >= DEFAULT_RETRY.attempts
        /\ ~(call.plan[1] # "ok" /\ call.plan[2] = "ok")


(***************************************************************************)
(* TimeSeriesAnalyzer.getDailySummary                                      *)
(***************************************************************************)
\* extractTimestamp: ymdhm, else obsTime, else timestamp, else ''
extractTimestamp(entry) ==
    IF "null" \in DOMAIN entry THEN <<>>
    ELSE IF "ymdhm" \in DOMAIN entry THEN entry.ymdhm
    ELSE IF "obsTime" \in DOMAIN entry THEN entry.obsTime
    ELSE IF "timestamp" \in DOMAIN entry THEN entry.timestamp
    ELSE <<>>

\* Array.prototype.indexOf on a list that holds x
IndexOf(values, x) == CHOOSE i \in 1..Len(values) : values[i] = x /\ \A j \in 1..(i - 1) : values[j] # x

\* getDailySummary: the finite values are collected; max and min are looked
\* up by their position in that list, and the entries at those positions of
\* data give the times.  The average is kept as sum and count.
getDailySummary(data) ==
    LET all == [i \in 1..Len(data) |-> extractValue(data[i])]
        values == SelectSeq(all, IsFinite)
        RECURSIVE Sum(_)
        Sum(seq) == IF seq = <<>> THEN 0 ELSE Head(seq) + Sum(Tail(seq))
        max == CHOOSE x \in {values[i] : i \in 1..Len(values)} :
                  \A i \in 1..Len(values) : values[i] <= x
        min == CHOOSE x \in {values[i] : i \in 1..Len(values)} :
                  \A i \in 1..Len(values) : values[i] >= x
    IN  IF data = <<>> \/ values = <<>> THEN None
        ELSE [current |-> values[1], max |-> max, min |-> min,
              average |-> [sum |-> Sum(values), count |-> Len(values)],
              maxTime |-> extractTimestamp(data[IndexOf(values, max)]),
              minTime |-> extractTimestamp(data[IndexOf(values, min)])]

\* a series: what each entry holds as its value (or that the entry is
\* missing); the entry at position i is stamped with time i
SeriesValues == {NullEntry, [v |-> Null], [v |-> <<"x">>], [v |-> S1_0], [v |-> S1_1], [v |-> S0_9]}

Stamped(series) ==
    [i \in 1..Len(series) |->
        IF series[i] = NullEntry THEN NullEntry
        ELSE [v |-> series[i].v, ymdhm |-> <<"t", DigitChar(i)>>]]

InitSeries ==
    /\ op = "none"
    /\ inp \in {[fn |-> "getDailySummary", data |-> Stamped(series)] :
                    series \in SeqsUpTo(SeriesValues, MaxSeries)}
    /\ out = None
    /\ stationCache = <<>>
    /\ lastFetchTime = 0
    /\ now = 1
    /\ proc = <<>>
    /\ ncalls = 0
    /\ hist = <<>>
    /\ call = <<>>

DoGetDailySummary ==
    /\ op = "none" /\ inp.fn = "getDailySummary"
    /\ op' = inp.fn
    /\ out' = getDailySummary(inp.data)
    /\ UNCHANGED <<inp, varsSM, varsSearch>>

NextSeries == DoGetDailySummary

SpecSeries == InitSeries /\ [][NextSeries]_vars

(***************************************************************************)
(* Claims about getDailySummary (SpecSeries)                               *)
(***************************************************************************)
FiniteAt(data) == {i \in 1..Len(data) : IsFinite(extractValue(data[i]))}

\* C20 (as stated): for a series with a finite value the summary exists,
\* current is the first finite value, and maxTime and minTime are the times
\* of entries of the series that hold the largest and the smallest finite
\* value, wherever the entries without a finite value stand.
C20_AsStated ==
    (op = "getDailySummary" /\ FiniteAt(inp.data) # {}) =>
        /\ out # None
        /\ out.current = extractValue(inp.data[MinOf(FiniteAt(inp.data))])
        /\ \E i \in FiniteAt(inp.data) :
              /\ \A j \in FiniteAt(inp.data) :
                    extractValue(inp.data[j]) <= extractValue(inp.data[i])
              /\ out.maxTime = inp.data[i].ymdhm
        /\ \E i \in FiniteAt(inp.data) :
              /\ \A j \in FiniteAt(inp.data) :
                    extractValue(inp.data[j]) >= extractValue(inp.data[i])
              /\ out.minTime = inp.data[i].ymdhm


(***************************************************************************)
(* Claims about the station loop of searchAndGetData (SpecSearch)          *)
(***************************************************************************)
\* the kind the keywords of the query put first, in the order the comparator
\* of prioritizeSearchResults tests them
ClassifiedKind(query) ==
    IF isRainfallQuery(query) THEN "rainfall"
    ELSE IF isDamQuery(query) THEN "dam"
    ELSE IF isWaterLevelQuery(query) THEN "waterlevel"
    ELSE "none"

\* sorted is results with the stations of the kind moved to the front, no
\* station dropped or duplicated and no other pair of stations reordered
StableKindFirst(sorted, results, kind) ==
    /\ Len(sorted) = Len(results)
    /\ \E f \in Permutations(1..Len(results)) :
        /\ \A i \in 1..Len(results) : sorted[i] = results[f[i]]
        /\ \A i, j \in 1..Len(results) :
              i < j => /\ sorted[i].type = kind \/ sorted[j].type # kind
                       /\ (sorted[i].type = kind) = (sorted[j].type = kind)
                              => f[i] < f[j]

\* the domains read for one station whose steps all miss; waterSteps are the
\* steps of a water-level station
StationSteps(type, waterSteps) ==
    CASE type = "dam" -> <<"dam", "waterlevel">>
      [] type = "rainfall" -> <<"rainfall", "waterlevel">>
      [] type = "waterlevel" -> waterSteps

RECURSIVE FailedSteps(_, _)
FailedSteps(stations, waterSteps) ==
    IF stations = <<>> THEN <<>>
    ELSE StationSteps(Head(stations).type, waterSteps)
         \o FailedSteps(Tail(stations), waterSteps)

IsPrefixOf(s, t) == Len(s) <= Len(t) /\ SubSeq(t, 1, Len(s)) = s

\* a finished call that went through the station loop has evaluated the
\* stations in the stable kind-first order, each by its steps, and answers
\* from the first station a step of which resolved
ServedInOrder(waterSteps) ==
    (Finished /\ ~call.threw /\ DirectoryResults # <<>>) =>
        \E sorted \in [1..Len(DirectoryResults) ->
                      {DirectoryResults[i] : i \in 1..Len(DirectoryResults)}] :
            /\ StableKindFirst(sorted, DirectoryResults, ClassifiedKind(call.query))
            /\ LET left == Len(sorted) - Len(call.results)
                   station == sorted[left + 1]
                   steps == StationSteps(station.type, waterSteps)
               IN  /\ left >= 0 /\ left < Len(sorted)
                   /\ call.results = SubSeq(sorted, left + 1, Len(sorted))
                   /\ IF call.resolved
                      THEN /\ \E n \in 1..Len(steps) :
                                /\ station.type = "dam" => n = 2
                                /\ call.attempts =
                                      FailedSteps(SubSeq(sorted, 1, left), waterSteps)
                                      \o SubSeq(steps, 1, n)
                                /\ call.response.type =
                                      IF station.type = "dam" THEN "dam" ELSE steps[n]
                           /\ call.response.status = "success"
                           /\ IsPrefixOf(station.name, call.response.message)
                      ELSE /\ left + 1 = Len(sorted)
                           /\ call.attempts = FailedSteps(sorted, waterSteps)
                           /\ call.response.status = "error"

C21_WitnessSecondStation ==
    /\ Finished /\ call.resolved
    /\ Len(DirectoryResults) >= 2 /\ Len(call.results) < Len(DirectoryResults)


(***************************************************************************)
(* Claims about the branch without directory match (SpecSearch)            *)
(***************************************************************************)
\* the domains one attempt of kind reads
StepReads(kind) == IF kind = "dam" THEN <<"dam", "waterlevel">> ELSE <<kind>>

RECURSIVE ReadsOf(_)
ReadsOf(steps) ==
    IF steps = <<>> THEN <<>> ELSE StepReads(Head(steps)) \o ReadsOf(Tail(steps))

\* the attempt of kind finds a record for the query in the loaded snapshots
StepResolves(kind) ==
    \E domain \in {StepReads(kind)[i] : i \in 1..Len(StepReads(kind))} :
        Resolve(call, domain, call.query, <<call.query>>) # None

\* a finished call without directory match went through the attempts of
\* steps in order, stopped at the first that resolved and answered from it,
\* and gave the error response after the last one missed
AttemptedInOrder(steps) ==
    \E n \in 1..Len(steps) :
        /\ call.attempts = ReadsOf(SubSeq(steps, 1, n))
        /\ \A i \in 1..(n - 1) : ~StepResolves(steps[i])
        /\ IF call.resolved
           THEN /\ StepResolves(steps[n])
                /\ call.response.status = "success"
                /\ call.response.type = steps[n]
           ELSE /\ n = Len(steps)
                /\ ~StepResolves(steps[n])
                /\ call.response.status = "error"

C22_WitnessLastAttempt ==
    /\ Finished /\ call.resolved /\ DirectoryResults = <<>>
    /\ call.attempts = <<"waterlevel", "rainfall">>


(***************************************************************************)
(* Claims about the station identity in the response (SpecSearch)          *)
(***************************************************************************)
\* the loaded snapshot of the domain holds, under the code, the level
ReadFrom(domain, code, level) ==
    LET record == ResolveCodes(call, domain, <<code>>)
    IN  /\ record # None
        /\ (IF domain = "rainfall" THEN record.data.currentRainfall
            ELSE record.data.water_level) = level

\* C23 (as stated): in every success response the code of the primary
\* station is the code of the snapshot record its level was read from, and
\* the code of the water-level station is the code of the water-level
\* record its level was read from.
C23_AsStated ==
    (Finished /\ call.response.status = "success") =>
        /\ IF call.response.type = "dam"
           THEN \/ ReadFrom("dam", call.response.primary, call.response.level)
                \/ ReadFrom("waterlevel", call.response.primary, call.response.level)
           ELSE ReadFrom(call.response.type, call.response.primary,
                         call.response.level)
        /\ call.response.water # Null =>
              ReadFrom("waterlevel", call.response.water, call.response.waterLevel)


(***************************************************************************)
(* Claims about the alias lookup of collectCandidateCodes (SpecPure)       *)
(***************************************************************************)
\* the alias-table code under exactly the key name, as a set
ExactAlias(name, type) ==
    IF MappingGet(STATION_CODE_MAPPING[type], name) # Null
    THEN {MappingGet(STATION_CODE_MAPPING[type], name)} ELSE {}

\* C24 (as stated): every candidate is an explicit code, the trimmed numeric
\* name, or the alias-table code stored under exactly the raw name or exactly
\* the whitespace-stripped name; a name that only contains an alias key, or
\* is contained in one, contributes no alias code.
C24_AsStated ==
    op = "collectCandidateCodes" =>
        \A i \in 1..Len(out) :
            out[i] \in {normalizeCode(inp.additional[j]) : j \in 1..Len(inp.additional)}
                       \cup ExactAlias(inp.stationName, inp.type)
                       \cup ExactAlias(StripWs(inp.stationName), inp.type)
                       \cup (IF IsNumeric(Trim(inp.stationName))
                             THEN {Trim(inp.stationName)} ELSE {})


(***************************************************************************)
(* What the request code hands to the logger: BaseAPI.performRequest and   *)
(* FloodControlAPI.requestXml                                              *)
(***************************************************************************)
MaxLogged == 3

\* a value handed to the logger: its field name, how it carries the API key
\* ("none", "query": as a query parameter, "path": as a path segment,
\* "field": under a property of its own) and whether it went through
\* maskSecrets
LogValue(name, secret) == [name |-> name, secret |-> secret, filtered |-> FALSE]

maskSecrets(value) == [value EXCEPT !.filtered = TRUE]

AuthStrategies == {"ServiceKey", "CustomKey"}

\* authenticate adds serviceKey to the parameters under the ServiceKey
\* strategy only; buildUrl writes every parameter into the query string
AuthenticatedParams(strategy) ==
    LogValue("params", IF strategy = "ServiceKey" THEN "field" ELSE "none")

buildUrl(strategy) ==
    LogValue("url", IF strategy = "ServiceKey" THEN "query" ELSE "none")

\* buildApiUrl: base/apiKey/path
buildApiUrl == LogValue("url", "path")

LogRecord(message, values) == [message |-> message, values |-> values]

LogFrame == [pc |-> "idle", via |-> "none", strategy |-> "none", requests |-> 0,
             outcome |-> "none", log |-> <<>>]

\* performRequest up to its await of fetch: the context is logged
PerformRequestStarts ==
    /\ call.pc = "idle" /\ call.requests < MaxLogged
    /\ \E strategy \in AuthStrategies :
        call' = [call EXCEPT
                   !.pc = "fetch", !.via = "performRequest", !.strategy = strategy,
                   !.requests = @ + 1,
                   !.log = Append(@, LogRecord("Dispatching API request",
                              {maskSecrets(buildUrl(strategy)),
                               maskSecrets(AuthenticatedParams(strategy)),
                               maskSecrets(LogValue("headers", "none"))}))]
    /\ UNCHANGED <<varsPure, varsSM>>

\* the fetch of performRequest settles: a payload is logged with the url, or
\* handleError logs the message of the error
PerformRequestSettles ==
    /\ call.pc = "fetch" /\ call.via = "performRequest"
    /\ \E outcome \in {"ok", "status", "abort", "error"} :
        call' = [call EXCEPT
                   !.pc = "idle", !.outcome = outcome,
                   !.log = Append(@,
                       IF outcome = "ok"
                       THEN LogRecord("API request completed",
                               {buildUrl(call.strategy),
                                maskSecrets(LogValue("payload", "none"))})
                       ELSE LogRecord("API request failed",
                               {LogValue("message", "none")}))]
    /\ UNCHANGED <<varsPure, varsSM>>

\* requestXml up to its await of fetch: the url and the parameter names are
\* logged
RequestXmlStarts ==
    /\ call.pc = "idle" /\ call.requests < MaxLogged
    /\ call' = [call EXCEPT
                  !.pc = "fetch", !.via = "requestXml", !.requests = @ + 1,
                  !.log = Append(@, LogRecord("HRFCO XML request",
                             {buildApiUrl, LogValue("paramNames", "none")}))]
    /\ UNCHANGED <<varsPure, varsSM>>

\* the fetch of requestXml settles; nothing more is logged
RequestXmlSettles ==
    /\ call.pc = "fetch" /\ call.via = "requestXml"
    /\ \E outcome \in {"ok", "status", "abort", "error"} :
        call' = [call EXCEPT !.pc = "idle", !.outcome = outcome]
    /\ UNCHANGED <<varsPure, varsSM>>

InitLog ==
    /\ op = "none" /\ inp = None /\ out = None
    /\ stationCache = <<>>
    /\ lastFetchTime = 0
    /\ now = 1
    /\ proc = <<>>
    /\ ncalls = 0
    /\ hist = <<>>
    /\ call = LogFrame

NextLog ==
    \/ PerformRequestStarts
    \/ PerformRequestSettles
    \/ RequestXmlStarts
    \/ RequestXmlSettles

SpecLog == InitLog /\ [][NextLog]_vars

\* C25 (as stated): every url, parameter object, header object and payload
\* in a log record went through the masking filter, and no value of a log
\* record carries the API key without having gone through it.
C25_AsStated ==
    \A i \in 1..Len(call.log) :
        \A value \in call.log[i].values :
            /\ value.name \in {"url", "params", "headers", "payload"} => value.filtered
            /\ value.secret # "none" => value.filtered


(***************************************************************************)
(* FloodControlAPI.getDamData and its damDataCache                         *)
(***************************************************************************)
DAM_CACHE_TTL == 2      \* ticks of the clock in one cache bucket
MaxDamTime == 3         \* the clock of the getDamData calls stops here

DamCodes == {Code31, Code32}
DamCallers == {1, 2}

\* the upstream records behind the snapshots a caller supplies
SuppliedFeeds ==
    { [realtime |-> << Item(Code31, <<"4", "2">>) >>,
       info |-> << Item(Code31, <<"4", "1">>) >>] }

\* Math.floor(now / DAM_CACHE_TTL)
Bucket(time) == time \div DAM_CACHE_TTL

\* mutant: the cache is used whatever the arguments are
UsesDamCache_Always(snapshots, useCache) == TRUE

\* !snapshots && useCache
UsesDamCache(snapshots, useCache) == snapshots = None /\ useCache

\* damDataCache.get(cacheKey) with cacheKey = `${obsCode}_${bucket}`
DamCacheGet(cache, obsCode, bucket) ==
    IF \E e \in cache : e.code = obsCode /\ e.bucket = bucket
    THEN CHOOSE e \in cache : e.code = obsCode /\ e.bucket = bucket
    ELSE None

\* damDataCache.set(cacheKey, {expires, data})
DamCacheSet(cache, obsCode, bucket, data) ==
    {e \in cache : ~(e.code = obsCode /\ e.bucket = bucket)}
    \cup {[code |-> obsCode, bucket |-> bucket,
           expires |-> bucket * DAM_CACHE_TTL + DAM_CACHE_TTL, data |-> data]}

IdleDamCall ==
    [pc |-> "idle", obsCode |-> <<>>, snapshots |-> None, useCache |-> TRUE,
     now |-> 0, prior |-> None, hit |-> FALSE, fetched |-> FALSE, result |-> None]

\* damDataCache, the calls in progress, and the calls without snapshots and
\* with caching that have resolved (code, bucket and data of each)
DamFrame == [damDataCache |-> {}, calls |-> [p \in DamCallers |-> IdleDamCall],
             resolved |-> {}]

\* the part of getDamData after the snapshots are there
DamResolved(c, frame, damSnapshots) ==
    LET result == resolveDamRecord(damSnapshots, <<frame.obsCode>>)
        uses == UsesDamCache(frame.snapshots, frame.useCache)
    IN  IF result = None
        THEN [c EXCEPT !.calls = [@ EXCEPT ![frame.p] =
                  [frame.call EXCEPT !.pc = "returned", !.result = Throw]]]
        ELSE [c EXCEPT
                !.calls = [@ EXCEPT ![frame.p] =
                    [frame.call EXCEPT !.pc = "returned",
                                       !.result = Some(<<result.data>>)]],
                !.damDataCache =
                    IF uses
                    THEN DamCacheSet(@, frame.obsCode, Bucket(frame.now), <<result.data>>)
                    ELSE @,
                !.resolved =
                    IF frame.snapshots = None /\ frame.useCache
                    THEN @ \cup {[code |-> frame.obsCode, bucket |-> Bucket(frame.now),
                                  data |-> <<result.data>>]}
                    ELSE @]

\* getDamData up to its first await, or to its end when the cache answers or
\* the snapshots were supplied
GetDamDataStarts(p) ==
    /\ call.calls[p].pc = "idle"
    /\ \E obsCode \in DamCodes, useCache \in BOOLEAN,
          snapshots \in {None} \cup {Some(fetchDamSnapshots(f)) : f \in SuppliedFeeds} :
        LET bucket == Bucket(now)
            cached == IF UsesDamCache(snapshots, useCache)
                      THEN DamCacheGet(call.damDataCache, obsCode, bucket) ELSE None
            earlier == {r \in call.resolved : r.code = obsCode /\ r.bucket = bucket}
            started == [IdleDamCall EXCEPT
                          !.pc = "fetch", !.obsCode = obsCode, !.snapshots = snapshots,
                          !.useCache = useCache, !.now = now,
                          !.prior = IF earlier = {} THEN None
                                    ELSE Some((CHOOSE r \in earlier : TRUE).data)]
        IN  call' =
              IF cached # None /\ cached.expires > now
              THEN [call EXCEPT !.calls[p] =
                      [started EXCEPT !.pc = "returned", !.hit = TRUE,
                                      !.result = Some(cached.data)]]
              ELSE IF snapshots # None
                   THEN DamResolved(call,
                            [p |-> p, call |-> started, obsCode |-> obsCode,
                             snapshots |-> snapshots, useCache |-> useCache, now |-> now],
                            snapshots.value)
                   ELSE [call EXCEPT !.calls[p] = started]
    /\ UNCHANGED <<varsPure, varsSM>>

\* the awaited fetchDamSnapshots settles and getDamData runs to its end
DamSnapshotsSettle(p) ==
    /\ call.calls[p].pc = "fetch"
    /\ \E outcome \in {Throw} \cup {[feed |-> f] : f \in DamFeeds} :
        LET own == [call.calls[p] EXCEPT !.fetched = TRUE]
        IN  call' =
              IF Threw(outcome)
              THEN [call EXCEPT !.calls[p] =
                      [own EXCEPT !.pc = "returned", !.result = Throw]]
              ELSE DamResolved(call,
                       [p |-> p, call |-> own, obsCode |-> own.obsCode,
                        snapshots |-> own.snapshots, useCache |-> own.useCache,
                        now |-> own.now],
                       fetchDamSnapshots(outcome.feed))
    /\ UNCHANGED <<varsPure, varsSM>>

\* the caller has consumed the result
GetDamDataReturns(p) ==
    /\ call.calls[p].pc = "returned"
    /\ call' = [call EXCEPT !.calls[p] = IdleDamCall]
    /\ UNCHANGED <<varsPure, varsSM>>

InitDam ==
    /\ op = "none" /\ inp = None /\ out = None
    /\ stationCache = <<>>
    /\ lastFetchTime = 0
    /\ now = 0
    /\ proc = <<>>
    /\ ncalls = 0
    /\ hist = <<>>
    /\ call = DamFrame

\* Date.now() advances
DamTick ==
    /\ now < MaxDamTime
    /\ now' = now + 1
    /\ UNCHANGED <<stationCache, lastFetchTime, proc, ncalls, hist, varsPure, varsSearch>>

NextDam ==
    \/ \E p \in DamCallers : GetDamDataStarts(p)
    \/ \E p \in DamCallers : DamSnapshotsSettle(p)
    \/ \E p \in DamCallers : GetDamDataReturns(p)
    \/ DamTick

SpecDam == InitDam /\ [][NextDam]_vars

\* what a returned call shows
DamCallOf(p) == call.calls[p]
CachingCall(c) == c.snapshots = None /\ c.useCache

\* every returned call: a caching call that started after a caching call for
\* its code had resolved in its bucket returns that data without a fetch; an
\* answer from the cache was written by a call of the same code and bucket
\* and has not expired; a call with snapshots or without caching computes
\* its answer from what was supplied or fetched
DamCallsServed ==
    \A p \in DamCallers :
        LET c == DamCallOf(p)
        IN  c.pc = "returned" =>
              /\ (CachingCall(c) /\ c.prior # None) =>
                    /\ c.hit /\ ~c.fetched
                    /\ c.result = c.prior
              /\ c.hit =>
                    /\ CachingCall(c)
                    /\ \E r \in call.resolved :
                          /\ r.code = c.obsCode /\ r.bucket = c.now \div DAM_CACHE_TTL
                          /\ c.now < (r.bucket + 1) * DAM_CACHE_TTL
                          /\ Some(r.data) = c.result
              /\ ~CachingCall(c) =>
                    /\ ~c.hit
                    /\ c.snapshots = None => c.fetched
                    /\ c.snapshots # None =>
                          /\ ~c.fetched
                          /\ c.result =
                                IF resolveDamRecord(c.snapshots.value, <<c.obsCode>>) = None
                                THEN Throw
                                ELSE Some(<<resolveDamRecord(c.snapshots.value,
                                                             <<c.obsCode>>).data>>)

\* the cache changes only in the step in which a caching call resolves, and
\* then by the entry of that call's code and bucket
DamCacheWrittenBy ==
    call.damDataCache' # call.damDataCache =>
        \E p \in DamCallers :
            LET c == call.calls'[p]
            IN  /\ call.calls[p].pc = "fetch" /\ c.pc = "returned"
                /\ CachingCall(c) /\ c.result # Throw
                /\ \A e \in call.damDataCache' \ call.damDataCache :
                      /\ e.code = c.obsCode /\ e.bucket = c.now \div DAM_CACHE_TTL
                      /\ Some(e.data) = c.result
                /\ \A e \in call.damDataCache \ call.damDataCache' :
                      e.code = c.obsCode /\ e.bucket = c.now \div DAM_CACHE_TTL

\* C26: a caching call of getDamData (no snapshots, useCache) that starts
\* after such a call for the same code has resolved in the same bucket
\* returns the cached data without an upstream fetch; a cached entry is never
\* returned in a later bucket or after its expiry; a call that fails to
\* resolve writes nothing to the cache; a call with supplied snapshots or
\* useCache = false neither reads nor writes the cache.
C26_DamCache == [] DamCallsServed /\ [][DamCacheWrittenBy]_vars

\* a caching call was answered from the cache while the other caller awaits
\* its fetch for another code
C26_Witness ==
    \E p, q \in DamCallers :
        /\ call.calls[p].pc = "returned" /\ call.calls[p].hit
        /\ call.calls[p].now > 0
        /\ call.calls[q].pc = "fetch"


(***************************************************************************)
(* Claims about failed and forced refreshes of StationManager (SpecSM)     *)
(***************************************************************************)
\* the refresh of the call of p has run to its end
Refreshed(p) == proc[p].pc \in {"search", "done"} /\ proc[p].fetches > 0

\* the call of p started within the TTL window of the last completed refresh
WithinTtl(p) ==
    /\ proc[p].prev.done # 0
    /\ proc[p].localNow - proc[p].prev.started < CacheDuration

\* C27: a refresh sets lastFetchTime at its end whatever the listing fetches
\* did, also when all of them failed; a searchByName or getByCode call that
\* starts within the TTL window after it issues no listing fetch, so a kind
\* whose fetch failed stays without entry; it is fetched again by the first
\* lookup after the window and by refreshCache.
C27_FailedRefreshMarksFresh ==
    \A p \in Procs :
        /\ Refreshed(p) => lastFetchTime = proc[p].localNow
        /\ (proc[p].op \in Lookups /\ WithinTtl(p)) =>
              /\ proc[p].fetches = 0
              /\ proc[p].pc \in {"search", "done"} => stationCache = proc[p].before
        /\ (/\ proc[p].pc \in {"search", "done"}
            /\ \/ proc[p].op = "refreshCache"
               \/ proc[p].op \in Lookups /\ proc[p].prev.done # 0 /\ ~WithinTtl(p))
           => proc[p].fetches = Len(RefreshOrder)

\* a lookup has returned without a fetch, within the window of a refresh all
\* of whose listing fetches had failed
C27_Witness ==
    \E p \in Procs :
        /\ proc[p].op \in Lookups /\ proc[p].pc = "done"
        /\ WithinTtl(p)
        /\ stationCache = <<>>
        /\ proc[p].fetches = 0

\* a lookup after the window of such a refresh has fetched the listings again
C27_WitnessRetried ==
    \E p \in Procs :
        /\ proc[p].op \in Lookups /\ proc[p].pc = "done"
        /\ proc[p].prev.done # 0 /\ ~WithinTtl(p)
        /\ proc[p].before = <<>>
        /\ proc[p].fetches = Len(RefreshOrder)


\* C29: refreshCache asks for the listing of all three kinds, also when it
\* is called within the TTL window of the last refresh, and sets
\* lastFetchTime; a searchByName that starts within the TTL window of a
\* refreshCache issues no listing fetch.
C29_ForcedRefresh ==
    \A p \in Procs :
        /\ (proc[p].op = "refreshCache" /\ proc[p].pc \in {"search", "done"}) =>
              /\ proc[p].fetches = Len(RefreshOrder)
              /\ lastFetchTime = proc[p].localNow
        /\ (/\ proc[p].op = "searchByName"
            /\ proc[p].prev.forced /\ WithinTtl(p))
           => proc[p].fetches = 0

\* a refreshCache called within the window of an earlier refresh has fetched
\* the three listings
C29_Witness ==
    \E p \in Procs :
        /\ proc[p].op = "refreshCache" /\ proc[p].pc = "done"
        /\ WithinTtl(p)
        /\ proc[p].fetches = Len(RefreshOrder)

\* a searchByName within the window of a refreshCache has returned without
\* a fetch
C29_WitnessNextSearch ==
    \E p \in Procs :
        /\ proc[p].op = "searchByName" /\ proc[p].pc = "done"
        /\ proc[p].prev.forced /\ WithinTtl(p)
        /\ proc[p].fetches = 0


(***************************************************************************)
(* Claims about overlapping refreshes of StationManager (SpecOverlap)      *)
(***************************************************************************)
\* the refresh of the call of q has stored its listing of the kind
HasWritten(q, kind) ==
    /\ proc[q].fetches > 0 /\ kind \notin proc[q].threw
    /\ \/ proc[q].pc \in {"search", "done"}
       \/ \E later \in Kinds :
            proc[q].pc = AwaitPc(later) /\ KindIndex(later) > KindIndex(kind)

\* C28 (as stated): lastFetchTime never moves backwards, and a refresh never
\* replaces the entry of a kind that a refresh started after it has already
\* written.
C28_AsStated ==
    [][/\ lastFetchTime' >= lastFetchTime
       /\ \A p, q \in Procs : \A kind \in Kinds :
            (/\ proc[p].pc = AwaitPc(kind) /\ proc'[p].pc # AwaitPc(kind)
             /\ proc[q].localNow > proc[p].localNow
             /\ HasWritten(q, kind))
            => CacheGet(stationCache', kind) = CacheGet(stationCache, kind)]_vars


(***************************************************************************)
(* KoreaOpenDataAPIClient.getRealEstateInfo over RealEstateAPI             *)
(***************************************************************************)
REGION_CODES ==
    << [label |-> <<"s", "_", "j">>, code |-> <<"1", "1">>],
       [label |-> <<"b", "_", "j">>, code |-> <<"2", "6">>] >>

\* /^\d{5}$/ of resolveRegionCode, for the code length of the table above
RegionCodeLen == Len(REGION_CODES[1].code)

\* /^\d{6}$/ of normalizeYearMonth
YearMonthLen == 6
CurrentYearMonth == <<"2", "0", "2", "6", "1", "1">>

\* value.toString().toLowerCase().replace(/[\s_]/g, '').trim()
normalizeText(value) ==
    Trim(SelectSeq(ToLowerCase(value), LAMBDA c : ~IsSpace(c) /\ c # "_"))

normalizeYearMonth(yearMonth) ==
    IF yearMonth # Null /\ IsNumeric(yearMonth) /\ Len(yearMonth) = YearMonthLen
    THEN yearMonth ELSE CurrentYearMonth

\* label.split('_')
RECURSIVE SplitLabel(_, _)
SplitLabel(label, part) ==
    IF label = <<>> THEN <<part>>
    ELSE IF Head(label) = "_" THEN <<part>> \o SplitLabel(Tail(label), <<>>)
    ELSE SplitLabel(Tail(label), Append(part, Head(label)))

\* label.replace(/_/g, with)
ReplaceUnderscore(label, with) ==
    LET RECURSIVE Go(_)
        Go(s) == IF s = <<>> THEN <<>>
                 ELSE (IF Head(s) = "_" THEN with ELSE <<Head(s)>>) \o Go(Tail(s))
    IN  Go(label)

RegionMatches(region, normalized) ==
    \/ normalizeText(ReplaceUnderscore(region.label, <<" ">>)) = normalized
    \/ \E i \in 1..Len(SplitLabel(region.label, <<>>)) :
          LET part == normalizeText(SplitLabel(region.label, <<>>)[i])
          IN  part # <<>> /\ (Includes(normalized, part) \/ Includes(part, normalized))
    \/ normalized = region.code

\* RealEstateAPI.resolveRegionCode: the first region of the table that
\* matches, else the query itself when it has the form of a code, else null
resolveRegionCode(query) ==
    LET trimmed == IF query = Null THEN <<>> ELSE Trim(query)
        normalized == normalizeText(trimmed)
        hits == {i \in 1..Len(REGION_CODES) : RegionMatches(REGION_CODES[i], normalized)}
    IN  IF trimmed = <<>> THEN None
        ELSE IF hits # {}
             THEN REGION_CODES[CHOOSE i \in hits : \A j \in hits : i <= j]
        ELSE IF IsNumeric(normalized) /\ Len(normalized) = RegionCodeLen
             THEN [label |-> normalized, code |-> normalized]
        ELSE None

\* remaining.replace(new RegExp(token, 'gi'), ' ')
RECURSIVE ReplaceToken(_, _)
ReplaceToken(s, token) ==
    IF token = <<>> \/ Len(s) < Len(token) THEN s
    ELSE IF ToLowerCase(SubSeq(s, 1, Len(token))) = ToLowerCase(token)
    THEN <<" ">> \o ReplaceToken(SubSeq(s, Len(token) + 1, Len(s)), token)
    ELSE <<Head(s)>> \o ReplaceToken(Tail(s), token)

\* remaining.replace(/\s+/g, ' ')
RECURSIVE CollapseSpaces(_)
CollapseSpaces(s) ==
    IF s = <<>> THEN <<>>
    ELSE IF IsSpace(Head(s))
    THEN IF Tail(s) # <<>> /\ IsSpace(Head(Tail(s))) THEN CollapseSpaces(Tail(s))
         ELSE <<" ">> \o CollapseSpaces(Tail(s))
    ELSE <<Head(s)>> \o CollapseSpaces(Tail(s))

\* extractApartmentFilter: the query without the region's label, in its three
\* spellings, its parts and its code
extractApartmentFilter(query, region) ==
    LET tokens == << region.label, ReplaceUnderscore(region.label, <<" ">>),
                     ReplaceUnderscore(region.label, <<>>) >>
                  \o SplitLabel(region.label, <<>>) \o << region.code >>
        RECURSIVE Strip(_, _)
        Strip(remaining, ts) ==
            IF ts = <<>> THEN remaining
            ELSE Strip(ReplaceToken(remaining, Head(ts)), Tail(ts))
    IN  Trim(CollapseSpaces(Strip(query, tokens)))

\* filterTransactions of the client and filterTransactionsByApartment of
\* RealEstateAPI: the same filter
filterTransactions(transactions, keyword) ==
    IF normalizeText(keyword) = <<>> THEN transactions
    ELSE SelectSeq(transactions,
            LAMBDA tx : Includes(normalizeText(tx.apartmentName), normalizeText(keyword)))

\* new Map keyed by transactionId, later entries replacing the value of
\* earlier ones in the position of the first
DedupeById(transactions) ==
    LET first == {i \in 1..Len(transactions) :
                    \A j \in 1..(i - 1) :
                        transactions[j].transactionId # transactions[i].transactionId}
        LastOf(i) == CHOOSE j \in 1..Len(transactions) :
                        /\ transactions[j].transactionId = transactions[i].transactionId
                        /\ \A k \in (j + 1)..Len(transactions) :
                              transactions[k].transactionId # transactions[i].transactionId
        RECURSIVE Go(_)
        Go(i) == IF i > Len(transactions) THEN <<>>
                 ELSE (IF i \in first THEN <<transactions[LastOf(i)]>> ELSE <<>>)
                      \o Go(i + 1)
    IN  Go(1)

\* sort by dealDate descending, then priceWon descending
SortByDeal(transactions) ==
    LET Before(a, b) == \/ a.dealDate > b.dealDate
                        \/ a.dealDate = b.dealDate /\ a.priceWon > b.priceWon
        RECURSIVE Insert(_, _)
        Insert(sorted, tx) ==
            IF sorted = <<>> THEN <<tx>>
            ELSE IF Before(tx, Head(sorted)) THEN <<tx>> \o sorted
            ELSE <<Head(sorted)>> \o Insert(Tail(sorted), tx)
        RECURSIVE Go(_, _)
        Go(rest, sorted) ==
            IF rest = <<>> THEN sorted ELSE Go(Tail(rest), Insert(sorted, Head(rest)))
    IN  Go(transactions, <<>>)

EstateResult(status, query, yearMonth, transactions, message) ==
    [status |-> status, query |-> query, yearMonth |-> yearMonth,
     transactions |-> transactions, message |-> message]

\* the result of the branch of a resolved region
RegionResult(c, transactions) ==
    EstateResult(IF transactions # <<>> THEN "success" ELSE "error",
                 c.query, c.yearMonth, transactions,
                 IF transactions # <<>> THEN Null ELSE <<"no data">>)

\* mutant: the catch block hands the error on to the caller
EstateCaught_Rethrow(c, message) == [c EXCEPT !.pc = "returned", !.result = Throw]

\* the catch block: an error result with the message of the error; an error
\* that is no Error gives the default message
EstateCaught(c, message) ==
    [c EXCEPT !.pc = "returned",
              !.result = EstateResult("error", c.query, c.yearMonth, <<>>,
                             IF message = Null THEN <<"unknown error">> ELSE message)]

TxK == [transactionId |-> 1, apartmentName |-> <<"k">>, dealDate |-> 2, priceWon |-> 1]
TxM == [transactionId |-> 2, apartmentName |-> <<"m">>, dealDate |-> 1, priceWon |-> 1]
TxK2 == [transactionId |-> 1, apartmentName |-> <<"k">>, dealDate |-> 1, priceWon |-> 2]
TxKb == [transactionId |-> 3, apartmentName |-> <<"k", " ", "b">>, dealDate |-> 2,
         priceWon |-> 2]

\* what one upstream request for a region and month can give
RegionOutcomes ==
    {[throw |-> TRUE, message |-> m] : m \in {Null, <<"upstream">>}}
    \cup {[list |-> l] : l \in {<<>>, <<TxK, TxKb>>, <<TxM, TxK2>>}}

EstateQueries ==
    {Null, <<>>, <<" ">>, <<"s">>, <<"s", " ", "k">>, <<"j", "m">>, <<"k">>, <<" ", "m">>,
     <<"k", "_", "b">>, <<"2", "6">>, <<"9", "9">>, <<"9", "9", " ", "k">>}
EstateYearMonths ==
    {Null, <<"2", "0", "2", "4", "0", "1">>, <<"2", "0", "2", "5", "1", "2">>, <<"x">>}

IdleEstate ==
    [pc |-> "idle", query |-> <<>>, yearMonth |-> <<>>, region |-> None,
     apartmentFilter |-> <<>>, result |-> None]

\* getRealEstateInfo up to its first await
GetRealEstateInfoStarts ==
    /\ call.pc = "idle"
    /\ \E query \in EstateQueries, yearMonth \in EstateYearMonths :
        LET sanitizedQuery == IF query = Null THEN <<>> ELSE Trim(query)
            started == [IdleEstate EXCEPT !.query = sanitizedQuery,
                                          !.yearMonth = normalizeYearMonth(yearMonth)]
            region == resolveRegionCode(sanitizedQuery)
        IN  call' =
              IF sanitizedQuery = <<>>
              THEN [started EXCEPT
                      !.pc = "returned",
                      !.result = EstateResult("error", sanitizedQuery, started.yearMonth,
                                              <<>>, <<"enter a query">>)]
              ELSE IF region # None
              THEN [started EXCEPT
                      !.pc = "await_region", !.region = region,
                      !.apartmentFilter = extractApartmentFilter(sanitizedQuery, region)]
              ELSE [started EXCEPT !.pc = "await_across"]
    /\ UNCHANGED <<varsPure, varsSM>>

\* getTransactionsByRegion settles
RegionTransactionsSettle ==
    /\ call.pc = "await_region"
    /\ \E outcome \in RegionOutcomes :
        call' =
          IF Threw(outcome) THEN EstateCaught(call, outcome.message)
          ELSE IF call.apartmentFilter = <<>>
          THEN [call EXCEPT !.pc = "returned", !.result = RegionResult(call, outcome.list)]
          ELSE IF filterTransactions(outcome.list, call.apartmentFilter) # <<>>
          THEN [call EXCEPT
                  !.pc = "returned",
                  !.result = RegionResult(call,
                                filterTransactions(outcome.list, call.apartmentFilter))]
          ELSE [call EXCEPT !.pc = "await_apartment"]
    /\ UNCHANGED <<varsPure, varsSM>>

\* searchByApartment settles: its own request, filtered by the apartment name
ApartmentSearchSettles ==
    /\ call.pc = "await_apartment"
    /\ \E outcome \in RegionOutcomes :
        call' =
          IF Threw(outcome) THEN EstateCaught(call, outcome.message)
          ELSE [call EXCEPT
                  !.pc = "returned",
                  !.result = RegionResult(call,
                                filterTransactions(outcome.list, call.apartmentFilter))]
    /\ UNCHANGED <<varsPure, varsSM>>

\* searchAcrossRegions settles: one request per region of the table, a failed
\* one skipped, the matches collected, deduplicated and sorted
AcrossRegionsSettles ==
    /\ call.pc = "await_across"
    /\ \E outcomes \in [1..Len(REGION_CODES) -> RegionOutcomes] :
        LET RECURSIVE Aggregate(_)
            Aggregate(i) ==
                IF i > Len(REGION_CODES) THEN <<>>
                ELSE (IF Threw(outcomes[i]) THEN <<>>
                      ELSE filterTransactions(outcomes[i].list, call.query))
                     \o Aggregate(i + 1)
            crossRegionResults == SortByDeal(DedupeById(Aggregate(1)))
        IN  call' =
              [call EXCEPT
                 !.pc = "returned",
                 !.result =
                    IF crossRegionResults = <<>>
                    THEN EstateResult("error", call.query, call.yearMonth, <<>>,
                                      <<"not found">>)
                    ELSE EstateResult("success", call.query, call.yearMonth,
                                      crossRegionResults, <<"several regions">>)]
    /\ UNCHANGED <<varsPure, varsSM>>

\* the caller has consumed the result
GetRealEstateInfoReturns ==
    /\ call.pc = "returned"
    /\ call' = IdleEstate
    /\ UNCHANGED <<varsPure, varsSM>>

InitEstate ==
    /\ op = "none" /\ inp = None /\ out = None
    /\ stationCache = <<>>
    /\ lastFetchTime = 0
    /\ now = 1
    /\ proc = <<>>
    /\ ncalls = 0
    /\ hist = <<>>
    /\ call = IdleEstate

NextEstate ==
    \/ GetRealEstateInfoStarts
    \/ RegionTransactionsSettle
    \/ ApartmentSearchSettles
    \/ AcrossRegionsSettles
    \/ GetRealEstateInfoReturns

SpecEstate == InitEstate /\ [][NextEstate]_vars

C30_WitnessNoData ==
    /\ call.pc = "returned" /\ call.region # None /\ call.apartmentFilter # <<>>
    /\ call.result.status = "error" /\ call.result.message = <<"no data">>

\* matches from several regions
C30_WitnessAcross ==
    /\ call.pc = "returned" /\ call.region = None
    /\ call.result.status = "success" /\ Len(call.result.transactions) = 2

====
